---- MODULE Spec2Model ----
(***************************************************************************)
(* Session registry of the Surf browser service: SessionService           *)
(* (services/session_service.py), the statistics and quota records of     *)
(* models/schemas.py, the request handlers and the batch handler of       *)
(* controllers/browser_controller.py, BrowserService.navigate_to_url      *)
(* (services/browser_service.py) and the AdaptiveRateLimiter of           *)
(* utils/anti_detection.py, as an asyncio program: a step of the model    *)
(* is the code a task runs between two suspension points.                 *)
(***************************************************************************)
EXTENDS Integers, Sequences, FiniteSets, TLC

\* ------------------------------------------------------------------ bounds
\* time.time() runs over 0..MaxTime (whole seconds).
MaxTime == 1
\* browser.new_context() succeeds at most MaxCreated times in a behaviour.
MaxCreated == 3
\* settings.max_sessions (SURF_MAX_SESSIONS, default 20), scaled down.
max_sessions == 2
\* settings.session_ttl (SURF_SESSION_TTL, default 300), scaled down: a
\* session is over the TTL one clock unit after its creation.
session_ttl == 0
\* SessionLimits (defaults 300, 1000, 100, 50, 500), scaled down.
max_duration == 0
max_requests == 1
max_pages == 1
max_screenshots == 1
max_interactions == 1

\* Two client request tasks run concurrently on the event loop.
Clients == {1, 2}
SessionIds == 1..MaxCreated
\* The URLs asked for; the page's title is named after its URL.
Urls == {1, 2}
\* Offsets of the process's local time zone from UTC, in the clock's unit.
UtcOffsets == {-1, 0, 1}

VARIABLES
    now,              \* time.time()
    utc_offset,       \* the local time zone of the process
    active_sessions,  \* SessionService.active_sessions, in insertion order
    contexts,         \* browser.contexts: the open browser contexts
    created,          \* number of contexts opened so far
    browser_open,     \* FALSE once browser.close() has been called
    session_lock,     \* SessionService.session_lock: 0 free, c held by client c,
                      \* -1 held by the task running cleanup()
    task,             \* the client request tasks
    event,            \* the call that returned in the last step, if any
    reaper,           \* SessionService.cleanup_task (_cleanup_loop)
    shutdown,         \* the task running SessionService.cleanup
    enable_adaptive_rate_limiting,  \* settings.enable_adaptive_rate_limiting
    pacer,            \* adaptive_rate_limiter, the AdaptiveRateLimiter
    nav,              \* the BrowserService.navigate_to_url call in flight
    batch,            \* the batch_operations request in flight
    enable_site_memory,  \* settings.enable_site_memory
    site_memory_table,  \* the rows of the site_memory table
    access_log,       \* per site_url, the update_access_stats calls that
                      \* returned True, in order
    dedup,            \* the ContentDeduplicator
    returned,         \* the last call of a utility function and its result
    monitor,          \* the ResourceMonitor and the samples it collected
    rotator,          \* the ProxyRotator
    limiter,          \* the RateLimitMiddleware and the requests it admitted
    auth,             \* the AuthService and the API keys it issued
    cache             \* the CacheService and the latest set of each key

\* The site memory store.
memory == <<enable_site_memory, site_memory_table, access_log>>
\* The utilities that keep no state in the services.
library == <<dedup, returned>>
\* The pacer, the calls of BrowserService in flight and what they use.
\* The components that stand beside the session and browser services.
services == <<monitor, rotator, limiter, auth, cache>>
calls == <<enable_adaptive_rate_limiting, pacer, nav, batch, memory, library,
          services>>
\* The registry of SessionService and the tasks working on it.
registry == <<now, utc_offset, active_sessions, contexts, created,
              browser_open, session_lock, task, reaper, shutdown>>

vars == <<now, utc_offset, active_sessions, contexts, created,
          browser_open, session_lock, task, event, reaper, shutdown,
          enable_adaptive_rate_limiting, pacer, nav, batch,
          enable_site_memory, site_memory_table, access_log, dedup, returned,
          monitor, rotator, limiter, auth, cache>>

\* ------------------------------------------------------ records and helpers
SessionStats ==
    [requests_made |-> 0, pages_loaded |-> 0, screenshots_taken |-> 0,
     interactions_performed |-> 0, errors_encountered |-> 0,
     total_duration |-> 0, last_error |-> 0]

\* SessionData with its BrowserContext model: created_at and last_activity
\* default to datetime.utcnow(), a naive datetime holding the UTC wall clock;
\* url and title default to None (0).
SessionData(sid, ctx, t) ==
    [session_id |-> sid, context_id |-> ctx, status |-> "active",
     created_at |-> t, last_activity |-> t, url |-> 0, title |-> 0,
     stats |-> SessionStats]

\* datetime.timestamp() of a naive datetime reads it as local time.
timestamp(naive) == naive - utc_offset

Has(reg, sid) == \E i \in DOMAIN reg : reg[i].session_id = sid
Idx(reg, sid) == CHOOSE i \in DOMAIN reg : reg[i].session_id = sid
Get(reg, sid) == reg[Idx(reg, sid)]
Del(reg, sid) == SelectSeq(reg, LAMBDA r : r.session_id # sid)
Keys(reg) == [i \in DOMAIN reg |-> reg[i].session_id]
Registered(sid) == Has(active_sessions, sid)

\* A client task between two calls.
IdleTask == [pc |-> "idle", op |-> "none", sid |-> 0, start_time |-> 0]
AtRest(c) == task[c].pc = "idle"
Busy(c, pc, op, sid) == [task EXCEPT ![c] =
                            [IdleTask EXCEPT !.pc = pc, !.op = op, !.sid = sid]]
Rest(c) == [task EXCEPT ![c] = IdleTask]

\* The outcome of the call that returned in the last step, as its caller
\* sees it: the operation, the session id, the result ("ok" or the error
\* raised), and err: whether context.close() raised inside the call.
\* response: what the HTTP handler of the call answered, where the model
\* follows the handler (POST /sessions).
NoAnswer == [status |-> 0, error |-> [code |-> "none"]]
NoEvent == [op |-> "none", sid |-> 0, res |-> "none", err |-> FALSE,
            response |-> NoAnswer]
Outcome(op, sid, res) == [NoEvent EXCEPT !.op = op, !.sid = sid, !.res = res]

\* ---------------------------------------------------------------- the clock
Tick ==
    /\ now < MaxTime
    /\ now' = now + 1
    /\ event' = NoEvent
    /\ UNCHANGED <<utc_offset, calls, active_sessions, contexts, created,
                   browser_open, session_lock, task, reaper, shutdown>>

\* ------------------------------------------------------------ create_session
\* The admission test of create_session.
LimitReachedStrict(count) == count > max_sessions
LimitReached(count) == count >= max_sessions

\* core.foundation.ResourceLimitError(resource, limit, current).
ResourceLimitError(resource, limit, current) ==
    [code |-> "RESOURCE_LIMIT_ERROR", resource |-> resource,
     limit |-> limit, current |-> current]

\* The names session_controller.py binds to exception classes (its imports).
ControllerNames == {"SessionNotFoundError", "ResourceLimitError"}

\* The answer of the handler of POST /sessions to what the service call
\* did. When the call raises, the first except clause is evaluated: it names
\* ResourceLimitExceededError, which the module does not bind, so NameError
\* leaves the handler and the global exception handler answers 500.
create_session_handler(res, error) ==
    IF res = "ok" THEN [status |-> 200, error |-> [code |-> "none"]]
    ELSE IF "ResourceLimitExceededError" \notin ControllerNames
    THEN [status |-> 500, error |-> [code |-> "INTERNAL_ERROR"]]
    ELSE IF res = "ResourceLimit" THEN [status |-> 429, error |-> error]
    ELSE [status |-> 500, error |-> [code |-> "Session creation failed"]]

\* The outcome of create_session together with the handler's answer.
Created(sid, res, error) ==
    [Outcome("create", sid, res)
        EXCEPT !.response = create_session_handler(res, error)]

\* async with session_lock; the limit test; ResourceLimitError or on to
\* browser.new_context().
CreateBegin(c) ==
    /\ AtRest(c)
    /\ session_lock = 0
    /\ IF LimitReached(Len(active_sessions))
       THEN /\ event' = Created(0, "ResourceLimit",
                                 ResourceLimitError("sessions", max_sessions,
                                                    Len(active_sessions)))
            /\ UNCHANGED <<task, session_lock>>
       ELSE /\ task' = Busy(c, "new_context", "create", 0)
            /\ session_lock' = c
            /\ event' = NoEvent
    /\ UNCHANGED <<now, utc_offset, calls, active_sessions, contexts,
                   created, browser_open, reaper, shutdown>>

\* browser.new_context() returns a context, or raises.
CreateContext(c) ==
    /\ task[c].pc = "new_context"
    /\ \/ /\ browser_open
          /\ created < MaxCreated
          /\ created' = created + 1
          /\ contexts' = contexts \cup {created + 1}
          /\ task' = [task EXCEPT ![c].pc = "new_page", ![c].sid = created + 1]
          /\ event' = NoEvent
          /\ UNCHANGED session_lock
       \/ /\ task' = Rest(c)
          /\ event' = Created(0, "error", [code |-> "Exception"])
          /\ session_lock' = 0
          /\ UNCHANGED <<created, contexts>>
    /\ UNCHANGED <<now, utc_offset, calls, active_sessions, browser_open,
                   reaper, shutdown>>

\* self.active_sessions[session_id] = session_data: the assignment to a key
\* the dict holds replaces its value and keeps its place.
store(reg, session_data) ==
    IF Has(reg, session_data.session_id)
    THEN [reg EXCEPT ![Idx(reg, session_data.session_id)] = session_data]
    ELSE Append(reg, session_data)

\* context.route, context.new_page and setup_stealth_mode return and the
\* session is stored under session_id, or one of them raises.
CreateStore(c, session_id) ==
    /\ task[c].pc = "new_page"
    /\ \/ /\ browser_open
          /\ task[c].sid \in contexts
          /\ active_sessions' =
                store(active_sessions,
                      SessionData(session_id, task[c].sid, now))
          /\ event' = Created(session_id, "ok", [code |-> "none"])
       \/ /\ event' = Created(0, "error", [code |-> "Exception"])
          /\ UNCHANGED active_sessions
    /\ task' = Rest(c)
    /\ session_lock' = 0
    /\ UNCHANGED <<now, utc_offset, calls, contexts, created,
                   browser_open, reaper, shutdown>>

\* create_session in the runs where uuid4 gives an id no session ever had:
\* the model numbers such a session like its context.
CreateFinish(c) == CreateStore(c, task[c].sid)

\* create_session in all its runs: "sess_" and uuid.uuid4().hex[:8] is any
\* of the 16^8 ids, the id of a registered session among them.
CreateFinishDrawn(c) == \E session_id \in SessionIds : CreateStore(c, session_id)

\* ------------------------------------------------- _close_session_internal
\* Up to its first suspension: SessionNotFoundError when the id is not
\* registered ("not_found"); context.close() is called on the context of
\* browser.contexts with the session's context_id ("await"); with no such
\* context the record is deleted at once ("removed").
close_lookup_idempotent(reg, ctxs, sid) ==
    IF ~Has(reg, sid) THEN "removed"
    ELSE IF Get(reg, sid).context_id \in ctxs THEN "await"
    ELSE "removed"
close_lookup(reg, ctxs, sid) ==
    IF ~Has(reg, sid) THEN "not_found"
    ELSE IF Get(reg, sid).context_id \in ctxs THEN "await"
    ELSE "removed"

\* After context.close() returned or raised: del active_sessions[session_id]
\* (a KeyError lands in the except branch), or the except branch's removal.
close_finish_keep_on_error(reg, sid, raised) ==
    IF raised THEN reg ELSE Del(reg, sid)
close_finish(reg, sid, raised) == Del(reg, sid)

\* browser.contexts once context.close() returned (raised: the teardown
\* failed and the context is still there).
contexts_after_close(ctxs, ctx, raised) ==
    IF raised THEN ctxs ELSE ctxs \ {ctx}


\* ------------------------------------------------------------- close_session
CloseSessionBegin(c, sid) ==
    /\ AtRest(c)
    /\ session_lock = 0
    /\ LET look == close_lookup(active_sessions, contexts, sid) IN
       CASE look = "not_found" ->
                /\ event' = Outcome("close", sid, "SessionNotFound")
                /\ UNCHANGED <<active_sessions, session_lock, task>>
         [] look = "await" ->
                /\ session_lock' = c
                /\ task' = Busy(c, "close_ctx", "close", sid)
                /\ event' = NoEvent
                /\ UNCHANGED active_sessions
         [] look = "removed" ->
                /\ active_sessions' = close_finish(active_sessions, sid, FALSE)
                /\ event' = Outcome("close", sid, "ok")
                /\ UNCHANGED <<session_lock, task>>
    /\ UNCHANGED <<now, utc_offset, calls, contexts, created, browser_open, reaper,
                   shutdown>>

\* context.close() is over (the context is closed, or the teardown raised) and
\* its awaiter resumes, in one step.
CloseSessionReturn(c) ==
    /\ task[c].pc = "close_ctx"
    /\ \E raised \in BOOLEAN :
        /\ active_sessions' = close_finish(active_sessions, task[c].sid, raised)
        /\ contexts' = contexts_after_close(contexts, task[c].sid, raised)
        /\ event' = [Outcome("close", task[c].sid, "ok") EXCEPT !.err = raised]
    /\ task' = Rest(c)
    /\ session_lock' = 0
    /\ UNCHANGED <<now, utc_offset, calls, created, browser_open, reaper,
                   shutdown>>

\* --------------------------------------------------------------- get_session
\* time.time() - session.context.created_at.timestamp() > settings.session_ttl
age(s, t) == t - timestamp(s.created_at)
expired(s, t) == age(s, t) > session_ttl

\* SessionLimits.check_limits: the violated limits.
check_limits(stats) ==
    {v \in {"duration", "requests", "pages", "screenshots", "interactions"} :
        \/ v = "duration" /\ stats.total_duration > max_duration
        \/ v = "requests" /\ stats.requests_made > max_requests
        \/ v = "pages" /\ stats.pages_loaded > max_pages
        \/ v = "screenshots" /\ stats.screenshots_taken > max_screenshots
        \/ v = "interactions" /\ stats.interactions_performed > max_interactions}

\* The TTL and limit tests of get_session.
must_close(s) == expired(s, now) \/ check_limits(s.stats) # {}

\* session.context.last_activity = datetime.now(timezone.utc)
touch_never(reg, sid, t) == reg
touch(reg, sid, t) == [reg EXCEPT ![Idx(reg, sid)].last_activity = t]

\* get_session, called by task c (a handler in the middle of operation op,
\* or "get": the call alone), up to its return or, on the closing path, up
\* to the suspension in context.close(). ok_task is the task's next state
\* when the session is returned.
GetSessionStep(c, sid, op, ok_task) ==
    IF ~Registered(sid)
    THEN /\ event' = Outcome("get", sid, "SessionNotFound")
         /\ UNCHANGED <<active_sessions, task>>
    ELSE IF must_close(Get(active_sessions, sid))
    THEN IF close_lookup(active_sessions, contexts, sid) = "await"
         THEN /\ task' = Busy(c, "get_close_ctx", op, sid)
              /\ event' = NoEvent
              /\ UNCHANGED active_sessions
         ELSE /\ active_sessions' = close_finish(active_sessions, sid, FALSE)
              /\ event' = Outcome("get", sid, "InvalidSession")
              /\ UNCHANGED <<task>>
    ELSE /\ active_sessions' = touch(active_sessions, sid, now)
         /\ task' = ok_task
         /\ event' = Outcome("get", sid, "ok")

GetSession(c, sid) ==
    /\ AtRest(c)
    /\ GetSessionStep(c, sid, "get", task)
    /\ UNCHANGED <<now, utc_offset, calls, contexts, created, browser_open,
                   session_lock, reaper, shutdown>>

\* context.close() returns or raises on the closing path of get_session,
\* which then raises InvalidSessionError.
GetSessionCloseReturn(c) ==
    /\ task[c].pc = "get_close_ctx"
    /\ \E raised \in BOOLEAN :
        /\ active_sessions' = close_finish(active_sessions, task[c].sid, raised)
        /\ contexts' = contexts_after_close(contexts, task[c].sid, raised)
        /\ event' = [Outcome("get", task[c].sid, "InvalidSession")
                        EXCEPT !.err = raised]
    /\ task' = Rest(c)
    /\ UNCHANGED <<now, utc_offset, calls, created, browser_open,
                   session_lock, reaper, shutdown>>

\* ------------------------------------------------------ operation handlers
\* The operations of controllers/browser_controller.py on one session.
Operations == {"navigate", "extract", "interact", "screenshot"}

\* SessionStats.increment_*, update_duration and increment_errors as
\* update_session_stats applies them to the stats of one session. The dict
\* stats_update is a record with some of the keys "operation", "duration"
\* and "error".
apply_stats_update_any_kind(stats, stats_update) ==
    LET operation == IF "operation" \in DOMAIN stats_update
                     THEN stats_update.operation ELSE "none"
        counted == [stats EXCEPT !.requests_made = @ + 1]
        timed == IF "duration" \in DOMAIN stats_update
                 THEN [counted EXCEPT !.total_duration =
                                            @ + stats_update.duration]
                 ELSE counted
    IN IF "error" \in DOMAIN stats_update
       THEN [timed EXCEPT !.errors_encountered = @ + 1,
                          !.last_error = stats_update.error]
       ELSE timed
apply_stats_update(stats, stats_update) ==
    LET operation == IF "operation" \in DOMAIN stats_update
                     THEN stats_update.operation ELSE "none"
        counted ==
            CASE operation = "navigate" ->
                    [stats EXCEPT !.pages_loaded = @ + 1]
              [] operation = "screenshot" ->
                    [stats EXCEPT !.screenshots_taken = @ + 1]
              [] operation = "interact" ->
                    [stats EXCEPT !.interactions_performed = @ + 1]
              [] operation = "request" ->
                    [stats EXCEPT !.requests_made = @ + 1]
              [] OTHER -> stats
        timed == IF "duration" \in DOMAIN stats_update
                 THEN [counted EXCEPT !.total_duration =
                                            @ + stats_update.duration]
                 ELSE counted
    IN IF "error" \in DOMAIN stats_update
       THEN [timed EXCEPT !.errors_encountered = @ + 1,
                          !.last_error = stats_update.error]
       ELSE timed

\* SessionService.update_session_stats: nothing when the id is not registered.
update_session_stats(reg, sid, stats_update) ==
    IF ~Has(reg, sid) THEN reg
    ELSE [reg EXCEPT ![Idx(reg, sid)].stats =
             apply_stats_update(@, stats_update)]

\* The handler's get_session; with the session in hand the BrowserService
\* call starts (navigate_to_url reads start_time) and suspends in the browser.
OperationBegin(c, sid, op) ==
    /\ AtRest(c)
    /\ GetSessionStep(c, sid, op,
                      [Busy(c, "browser", op, sid) EXCEPT ![c].start_time = now])
    /\ UNCHANGED <<now, utc_offset, calls, contexts, created, browser_open,
                   session_lock, reaper, shutdown>>

\* The BrowserService call returns and the handler updates the statistics
\* (the navigate handler alone passes a duration), or the call raises
\* BrowserOperationError and the handler answers with an error.
OperationEnd(c) ==
    /\ task[c].pc = "browser"
    /\ \/ /\ task[c].sid \in contexts
          /\ active_sessions' =
                update_session_stats(
                    active_sessions, task[c].sid,
                    IF task[c].op = "navigate"
                    THEN [operation |-> task[c].op,
                          duration |-> now - task[c].start_time]
                    ELSE [operation |-> task[c].op])
       \/ UNCHANGED active_sessions
    /\ task' = Rest(c)
    /\ event' = NoEvent
    /\ UNCHANGED <<now, utc_offset, calls, contexts, created, browser_open,
                   session_lock, reaper, shutdown>>

\* The browser process dies: its contexts are gone and every call on one
\* of its pages raises from now on.
BrowserDies ==
    /\ browser_open
    /\ browser_open' = FALSE
    /\ contexts' = {}
    /\ event' = NoEvent
    /\ UNCHANGED <<now, utc_offset, calls, active_sessions, created,
                   session_lock, task, reaper, shutdown>>

\* The tasks inside a BrowserService call on the page of session sid.
Executing(sid) == {c \in Clients : task[c].pc = "browser" /\ task[c].sid = sid}

\* ------------------------------------------------------------- _cleanup_loop
\* The scan under session_lock: the ids whose age at current_time is over
\* the TTL, in the registry's order.
scan_expired(reg, current_time) ==
    Keys(SelectSeq(reg, LAMBDA s : expired(s, current_time)))

\* A run of _close_session_internal over ids, as far as it goes without
\* suspending: it stops in the context.close() of session cur (0: the run is
\* over), with rest still to do. A missing id raises SessionNotFoundError,
\* which ends the run when stop (cleanup) and is logged otherwise (the reaper).
RECURSIVE close_run(_, _, _, _)
close_run(ids, reg, ctxs, stop) ==
    IF ids = <<>>
    THEN [reg |-> reg, cur |-> 0, rest |-> <<>>, raised |-> FALSE]
    ELSE LET look == close_lookup(reg, ctxs, Head(ids)) IN
         CASE look = "not_found" ->
                IF stop
                THEN [reg |-> reg, cur |-> 0, rest |-> <<>>, raised |-> TRUE]
                ELSE close_run(Tail(ids), reg, ctxs, stop)
           [] look = "await" ->
                [reg |-> reg, cur |-> Head(ids), rest |-> Tail(ids),
                 raised |-> FALSE]
           [] look = "removed" ->
                close_run(Tail(ids), close_finish(reg, Head(ids), FALSE),
                          ctxs, stop)

ReaperAsleep == [pc |-> "sleep", current_time |-> 0, expired |-> <<>>, cur |-> 0]

\* The reaper closes the sessions of ids one after the other.
ReaperCloses(ids, reg, ctxs) ==
    LET run == close_run(ids, reg, ctxs, FALSE) IN
    /\ active_sessions' = run.reg
    /\ IF run.cur = 0
       THEN reaper' = ReaperAsleep
       ELSE reaper' = [pc |-> "close_ctx", current_time |-> 0,
                        expired |-> run.rest, cur |-> run.cur]

\* asyncio.sleep(session_cleanup_interval) is over: current_time is read,
\* then the lock is taken for the scan, or waited for.
ReaperWake ==
    /\ reaper.pc = "sleep"
    /\ IF session_lock = 0
       THEN ReaperCloses(scan_expired(active_sessions, now), active_sessions,
                         contexts)
       ELSE /\ reaper' = [reaper EXCEPT !.pc = "wait_lock", !.current_time = now]
            /\ UNCHANGED active_sessions
    /\ event' = NoEvent
    /\ UNCHANGED <<now, utc_offset, calls, contexts, created, browser_open,
                   session_lock, task, shutdown>>

\* The lock is free: the scan, with the time read before the wait.
ReaperScan ==
    /\ reaper.pc = "wait_lock"
    /\ session_lock = 0
    /\ ReaperCloses(scan_expired(active_sessions, reaper.current_time),
                    active_sessions, contexts)
    /\ event' = NoEvent
    /\ UNCHANGED <<now, utc_offset, calls, contexts, created, browser_open,
                   session_lock, task, shutdown>>

\* context.close() returns or raises in the reaper's close of session cur;
\* the reaper goes on with the rest.
ReaperCloseReturn ==
    /\ reaper.pc = "close_ctx"
    /\ \E raised \in BOOLEAN :
        LET ctxs == contexts_after_close(contexts, reaper.cur, raised) IN
        /\ contexts' = ctxs
        /\ ReaperCloses(reaper.expired,
                        close_finish(active_sessions, reaper.cur, raised), ctxs)
    /\ event' = NoEvent
    /\ UNCHANGED <<now, utc_offset, calls, created, browser_open, session_lock, task,
                   shutdown>>

\* ------------------------------------------------- SessionService.cleanup
ShutdownOff == [pc |-> "off", todo |-> <<>>, cur |-> 0]

\* cleanup_task.cancel() and the await of the cancelled task: the reaper ends
\* where it is suspended. CancelledError is no Exception: a reaper inside
\* context.close() leaves the record registered, its context closed or not.
ShutdownStart ==
    /\ shutdown.pc = "off"
    /\ shutdown' = [shutdown EXCEPT !.pc = "wait_lock"]
    /\ reaper' = [ReaperAsleep EXCEPT !.pc = "cancelled"]
    /\ IF reaper.pc = "close_ctx"
       THEN \E closed \in BOOLEAN :
               contexts' = contexts_after_close(contexts, reaper.cur, ~closed)
       ELSE UNCHANGED contexts
    /\ event' = NoEvent
    /\ UNCHANGED <<now, utc_offset, calls, active_sessions, created, browser_open,
                   session_lock, task>>

\* The loop of cleanup over list(active_sessions.keys()), from ids on, under
\* session_lock: it suspends in a context.close(); or SessionNotFoundError
\* leaves the loop and the lock for the outer except, which logs it and
\* returns; or the loop ends, the lock is released and browser.close() called.
ShutdownCloses(ids, reg, ctxs) ==
    LET run == close_run(ids, reg, ctxs, TRUE) IN
    /\ active_sessions' = run.reg
    /\ IF run.raised
       THEN /\ shutdown' = [ShutdownOff EXCEPT !.pc = "done"]
            /\ session_lock' = 0
            /\ UNCHANGED browser_open
       ELSE IF run.cur = 0
       THEN /\ shutdown' = [ShutdownOff EXCEPT !.pc = "browser_close"]
            /\ session_lock' = 0
            /\ browser_open' = FALSE
       ELSE /\ shutdown' = [pc |-> "close_ctx", todo |-> run.rest,
                            cur |-> run.cur]
            /\ session_lock' = -1
            /\ UNCHANGED browser_open

ShutdownAcquire ==
    /\ shutdown.pc = "wait_lock"
    /\ session_lock = 0
    /\ ShutdownCloses(Keys(active_sessions), active_sessions, contexts)
    /\ event' = NoEvent
    /\ UNCHANGED <<now, utc_offset, calls, contexts, created, task, reaper>>

ShutdownCloseReturn ==
    /\ shutdown.pc = "close_ctx"
    /\ \E raised \in BOOLEAN :
        LET ctxs == contexts_after_close(contexts, shutdown.cur, raised) IN
        /\ contexts' = ctxs
        /\ ShutdownCloses(shutdown.todo,
                          close_finish(active_sessions, shutdown.cur, raised),
                          ctxs)
    /\ event' = NoEvent
    /\ UNCHANGED <<now, utc_offset, calls, created, task, reaper>>

\* browser.close() returns, with every context closed, or raises; then
\* playwright.stop(), and cleanup returns.
ShutdownBrowserClosed ==
    /\ shutdown.pc = "browser_close"
    /\ \/ contexts' = {}
       \/ UNCHANGED contexts
    /\ shutdown' = [shutdown EXCEPT !.pc = "done"]
    /\ event' = NoEvent
    /\ UNCHANGED <<now, utc_offset, calls, active_sessions, created, browser_open,
                   session_lock, task, reaper>>

\* ------------------------------------------------------ AdaptiveRateLimiter
\* Delays are held in milliseconds and products are rounded down to the
\* millisecond; success_rate is held in tenths.
\* The defaults of AdaptiveRateLimiter.__init__: base_delay 2.0, min_delay
\* 0.5, max_delay 10.0, success_increment 0.1, failure_decrement 0.2.
base_delay == 2000
min_delay == 500
max_delay == 10000
success_increment == 1
failure_decrement == 2
\* The floor of success_rate (0.1) and its ceiling (1.0), in tenths.
success_rate_floor == 1
success_rate_ceiling == 10

Min(a, b) == IF a < b THEN a ELSE b
Max(a, b) == IF a > b THEN a ELSE b

\* AdaptiveRateLimiter(base_delay=base, min_delay=lo, max_delay=hi).
AdaptiveRateLimiter(base, lo, hi) ==
    [base_delay |-> base, min_delay |-> lo, max_delay |-> hi,
     success_rate |-> success_rate_ceiling, current_delay |-> base,
     total_requests |-> 0, successful_requests |-> 0]

\* get_next_delay(success): the limiter after the call. (The value returned
\* is current_delay plus a jitter in [0, 1 s], which is not stored.)
get_next_delay_unclamped(p, success) ==
    IF success
    THEN [p EXCEPT !.total_requests = @ + 1,
                   !.successful_requests = @ + 1,
                   !.success_rate = Min(success_rate_ceiling,
                                        @ + success_increment),
                   !.current_delay = (@ * 9) \div 10]
    ELSE [p EXCEPT !.total_requests = @ + 1,
                   !.success_rate = Max(success_rate_floor,
                                        @ - failure_decrement),
                   !.current_delay = @ * 2]
get_next_delay(p, success) ==
    IF success
    THEN [p EXCEPT !.total_requests = @ + 1,
                   !.successful_requests = @ + 1,
                   !.success_rate = Min(success_rate_ceiling,
                                        @ + success_increment),
                   !.current_delay = Max(p.min_delay, (@ * 9) \div 10)]
    ELSE [p EXCEPT !.total_requests = @ + 1,
                   !.success_rate = Max(success_rate_floor,
                                        @ - failure_decrement),
                   !.current_delay = Min(p.max_delay, @ * 2)]

\* The constructor arguments tried: delays from no wait to the default
\* maximum, with min_delay <= base_delay <= max_delay.
Delays == {0, 450, 500, 2000, 10000}
\* get_next_delay is called at most MaxRequests times on one limiter.
MaxRequests == 6

\* A call of get_next_delay(success) on the limiter.
GetNextDelay(success) ==
    /\ pacer.total_requests < MaxRequests
    /\ pacer' = get_next_delay(pacer, success)
    /\ event' = [NoEvent EXCEPT !.op = "get_next_delay",
                                !.res = IF success THEN "success" ELSE "failure"]
    /\ UNCHANGED <<registry, enable_adaptive_rate_limiting, nav, batch,
                   memory, library, services>>

\* --------------------------------------------------------- SiteMemoryManager
\* Python values kept in the blobs of a record: a number, a list, a tuple
\* or a value json.dumps refuses (a set). A dict is a function of its keys;
\* a key that is the Python int 1 is written "int:1".
Num(n) == [type |-> "number", items |-> <<n>>]
List(s) == [type |-> "list", items |-> s]
Tuple(s) == [type |-> "tuple", items |-> s]
Unserializable == [type |-> "set", items |-> <<>>]
EmptyDict == <<>>

\* json.dumps writes a key that is not a str as its decimal text.
json_key(k) == IF k = "int:1" THEN "1" ELSE k
\* json.dumps writes a tuple as an array.
json_value(v) == IF v.type = "tuple" THEN List(v.items) ELSE v
\* json.dumps raises TypeError on a value that is not JSON serializable.
serializable(d) == \A k \in DOMAIN d : d[k].type # "set"
\* json.dumps(d) of a dict and json.loads of the text.
json_dumps(d) ==
    [json |-> [k \in {json_key(k0) : k0 \in DOMAIN d} |->
                 json_value(d[CHOOSE k0 \in DOMAIN d : json_key(k0) = k])]]
json_loads(text) == text.json
\* json.dumps(cookies) of a list of dicts.
json_dumps_list(l) == [json |-> [i \in DOMAIN l |-> json_dumps(l[i]).json]]

\* time.time(): the clock starts one unit after the epoch.
time_time == now + 1

\* The value 1.0 of success_rate; rates are kept in units of 10^-8.
One == 10 ^ 8
\* alpha = 0.1 in update_access_stats, as 1 / alpha_inverse.
alpha_inverse == 10
\* The cap on a metric's samples (100 in the source).
max_samples == 2
\* The metrics whose samples update_access_stats keeps.
WindowKeys == {"load_time", "dom_ready_time", "response_time"}
\* f"{key}_avg"
avg_key(key) ==
    CASE key = "load_time" -> "load_time_avg"
      [] key = "dom_ready_time" -> "dom_ready_time_avg"
      [] key = "response_time" -> "response_time_avg"

\* SiteMemory(site_url, session_data, cookies, last_accessed, access_count,
\* success_rate, custom_data): __post_init__ makes the six learned blobs {}.
SiteMemory(site_url, session_data, cookies, last_accessed, access_count, success_rate, custom_data) ==
    [site_url |-> site_url, session_data |-> session_data,
     cookies |-> cookies, last_accessed |-> last_accessed,
     access_count |-> access_count, success_rate |-> success_rate,
     custom_data |-> custom_data, extraction_patterns |-> EmptyDict,
     performance_metrics |-> EmptyDict, timing_patterns |-> EmptyDict,
     site_characteristics |-> EmptyDict, anti_detection_rules |-> EmptyDict,
     optimal_selectors |-> EmptyDict]

\* The six learned blobs of a record.
LearnedBlobs == {"extraction_patterns", "performance_metrics",
                 "timing_patterns", "site_characteristics",
                 "anti_detection_rules", "optimal_selectors"}
\* The dicts of a record.
DictFields == {"session_data", "custom_data"} \cup LearnedBlobs

\* No row for a site_url; None returned by get_site_memory.
NoRow == [site_url |-> 0]
None == [site_url |-> 0]

\* cursor.fetchone() of SELECT ... WHERE site_url = ?
select_row(table, site_url) ==
    IF \E r \in table : r.site_url = site_url
    THEN CHOOSE r \in table : r.site_url = site_url
    ELSE NoRow

\* INSERT OR REPLACE into a table whose primary key is site_url.
insert_keeping(table, row) == table \cup {row}
insert_or_replace(table, row) ==
    {r \in table : r.site_url # row.site_url} \cup {row}

\* The result of a call that may write the table.
Written(table, value) == [table |-> table, value |-> value]

\* save_site_memory(site_memory) at time t: INSERT OR REPLACE of the row of
\* site_memory.site_url, created_at kept from the row replaced; False when
\* json.dumps or the database raises.
save_site_memory(table, site_memory, t, write_ok) ==
    IF ~write_ok \/ \E f \in DictFields : ~serializable(site_memory[f])
       \/ \E i \in DOMAIN site_memory.cookies :
              ~serializable(site_memory.cookies[i])
    THEN Written(table, FALSE)
    ELSE LET url == site_memory.site_url
             row == [f \in DictFields |-> json_dumps(site_memory[f])] @@
                    [site_url |-> url,
                     cookies |-> json_dumps_list(site_memory.cookies),
                     last_accessed |->
                         IF site_memory.last_accessed # 0
                         THEN site_memory.last_accessed ELSE t,
                     access_count |-> site_memory.access_count,
                     success_rate |-> site_memory.success_rate,
                     created_at |->
                         IF select_row(table, url) # NoRow
                         THEN select_row(table, url).created_at ELSE t,
                     updated_at |-> t] IN
         Written(insert_or_replace(table, row), TRUE)

\* get_site_memory(site_url): the record of the row, None when there is no
\* row or the database raises.
get_site_memory(table, site_url, read_ok) ==
    IF ~read_ok \/ select_row(table, site_url) = NoRow
    THEN None
    ELSE LET row == select_row(table, site_url) IN
         [f \in DictFields |-> json_loads(row[f])] @@
         [site_url |-> row.site_url,
          cookies |-> json_loads(row.cookies),
          last_accessed |-> row.last_accessed,
          access_count |-> row.access_count,
          success_rate |-> row.success_rate]

\* The samples of update_access_stats: existing[-100:] once there are more
\* than 100.
newest(existing) ==
    IF Len(existing) > max_samples
    THEN SubSeq(existing, Len(existing) - max_samples + 1, Len(existing))
    ELSE existing
RECURSIVE Sum(_)
Sum(s) == IF s = <<>> THEN 0 ELSE Head(s) + Sum(Tail(s))
\* sum(existing) / len(existing), in thousandths.
mean(existing) == (Sum(existing) * 1000) \div Len(existing)

\* No performance_data argument.
NoPerformanceData == EmptyDict

\* The performance_metrics of update_access_stats after one key of
\* performance_data: a sample joins its window and the average is stored,
\* any other key is stored as it is.
record_metric_keep_oldest(metrics, key, value) ==
    IF key \in WindowKeys
    THEN LET had == IF key \in DOMAIN metrics THEN metrics[key].items
                    ELSE <<>>
             all == Append(had, value.items[1])
             existing == IF Len(all) > max_samples
                         THEN SubSeq(all, 1, max_samples) ELSE all IN
         ((key :> List(existing)) @@ (avg_key(key) :> Num(mean(existing))))
         @@ metrics
    ELSE (key :> value) @@ metrics
record_metric(metrics, key, value) ==
    IF key \in WindowKeys
    THEN LET had == IF key \in DOMAIN metrics THEN metrics[key].items
                    ELSE <<>>
             existing == newest(Append(had, value.items[1])) IN
         ((key :> List(existing)) @@ (avg_key(key) :> Num(mean(existing))))
         @@ metrics
    ELSE (key :> value) @@ metrics
\* for key, value in performance_data.items()
RECURSIVE record_metrics(_, _)
record_metrics(metrics, performance_data) ==
    IF DOMAIN performance_data = {} THEN metrics
    ELSE LET key == CHOOSE k \in DOMAIN performance_data : TRUE
             rest == [k \in DOMAIN performance_data \ {key} |->
                        performance_data[k]] IN
         record_metrics(record_metric(metrics, key, performance_data[key]),
                        rest)

\* success_rate = (1 - alpha) * success_rate + alpha * (1.0 or 0.0)
moving_average_swapped(success_rate, success) ==
    (success_rate + (alpha_inverse - 1) * (IF success THEN One ELSE 0))
        \div alpha_inverse
moving_average(success_rate, success) ==
    ((alpha_inverse - 1) * success_rate + (IF success THEN One ELSE 0))
        \div alpha_inverse

\* update_access_stats(site_url, success, performance_data) at time t: False
\* when there is no record; else the record read is counted, dated, averaged
\* and saved.
update_access_stats(table, site_url, success, performance_data, t, read_ok, write_ok) ==
    LET got == get_site_memory(table, site_url, read_ok) IN
    IF got = None
    THEN Written(table, FALSE)
    ELSE save_site_memory(
             table,
             [got EXCEPT !.access_count = @ + 1,
                         !.last_accessed = t,
                         !.success_rate = moving_average(@, success),
                         !.performance_metrics =
                             record_metrics(@, performance_data)],
             t, write_ok)

\* update_extraction_patterns(site_url, patterns) at time t: the record read,
\* or a new one, has the patterns merged into its extraction_patterns and is
\* saved.
update_extraction_patterns(table, site_url, patterns, t, read_ok, write_ok) ==
    LET got == get_site_memory(table, site_url, read_ok)
        site == IF got = None
                THEN SiteMemory(site_url, EmptyDict, <<>>, t, 0, 0, EmptyDict)
                ELSE got IN
    save_site_memory(
        table,
        [site EXCEPT !.extraction_patterns = patterns @@ @],
        t, write_ok)

\* The store with no row and nothing logged.
NoRows == {}
\* Nothing logged for a site_url whose record was first.
NoAccess(first) == [first |-> first, calls |-> <<>>, patterns |-> <<>>]
MemoryAtRest ==
    /\ enable_site_memory = FALSE
    /\ site_memory_table = NoRows
    /\ access_log = [url \in Urls |-> NoAccess(None)]

\* An entry of access_log.
Access(success, performance_data) ==
    [success |-> success, performance_data |-> performance_data]
\* The log after a call of update_access_stats that returned value.
logged(url, success, performance_data, value) ==
    IF value
    THEN [access_log EXCEPT ![url].calls =
              Append(@, Access(success, performance_data))]
    ELSE access_log

\* No utility has been called.
NoCall == [call |-> "none", args |-> <<>>, value |-> <<>>]

\* The last call, its arguments and what it returned.
Returned(call, args, value) == [call |-> call, args |-> args, value |-> value]
\* A bool returned.
Bool(b) == [bool |-> b]

\* The performance_data passed to update_access_stats, times in
\* milliseconds.
PerformanceData ==
    {NoPerformanceData,
     "load_time" :> Num(1),
     ("load_time" :> Num(4)) @@ ("response_time" :> Num(1)),
     ("dom_ready_time" :> Num(2)) @@ ("ttfb" :> Num(5))}
\* update_access_stats returns True at most MaxAccesses times per site_url.
MaxAccesses == 3

\* A task calls update_access_stats(site_url, success, performance_data);
\* the database may raise while the row is read or written.
UpdateAccessStats(site_url, success, performance_data, read_ok, write_ok) ==
    /\ Len(access_log[site_url].calls) < MaxAccesses
    /\ LET w == update_access_stats(site_memory_table, site_url, success,
                                    performance_data, time_time, read_ok,
                                    write_ok) IN
         /\ site_memory_table' = w.table
         /\ access_log' = logged(site_url, success, performance_data, w.value)
         /\ returned' = Returned("update_access_stats",
                                 [site_url |-> site_url, success |-> success],
                                 Bool(w.value))
    /\ event' = NoEvent
    /\ UNCHANGED <<registry, enable_adaptive_rate_limiting, pacer, nav, batch,
                   enable_site_memory, dedup, services>>

\* The patterns passed to update_extraction_patterns.
Patterns == {"title" :> Num(1), ("title" :> Num(2)) @@ ("price" :> Num(1))}
\* update_extraction_patterns returns True at most MaxPatterns times per
\* site_url.
MaxPatterns == 2

\* A task calls update_extraction_patterns(site_url, patterns).
UpdateExtractionPatterns(site_url, patterns, read_ok, write_ok) ==
    /\ Len(access_log[site_url].patterns) < MaxPatterns
    /\ LET w == update_extraction_patterns(site_memory_table, site_url,
                                           patterns, time_time, read_ok,
                                           write_ok) IN
         /\ site_memory_table' = w.table
         /\ access_log' =
                IF w.value
                THEN [access_log EXCEPT ![site_url].patterns =
                          Append(@, patterns)]
                ELSE access_log
         /\ returned' = Returned("update_extraction_patterns",
                                 [site_url |-> site_url,
                                  patterns |-> patterns],
                                 Bool(w.value))
    /\ event' = NoEvent
    /\ UNCHANGED <<registry, enable_adaptive_rate_limiting, pacer, nav, batch,
                   enable_site_memory, dedup, services>>

\* A task calls save_site_memory(site_memory).
SaveSiteMemory(site_memory, write_ok) ==
    /\ LET w == save_site_memory(site_memory_table, site_memory, time_time,
                                 write_ok) IN
         /\ site_memory_table' = w.table
         /\ returned' = Returned("save_site_memory",
                                 [site_memory |-> site_memory],
                                 Bool(w.value))
    /\ event' = NoEvent
    /\ UNCHANGED <<registry, enable_adaptive_rate_limiting, pacer, nav, batch,
                   enable_site_memory, access_log, dedup, services>>

\* A task calls get_site_memory(site_url).
GetSiteMemory(site_url, read_ok) ==
    /\ returned' = Returned("get_site_memory", [site_url |-> site_url],
                            get_site_memory(site_memory_table, site_url,
                                            read_ok))
    /\ event' = NoEvent
    /\ UNCHANGED <<registry, enable_adaptive_rate_limiting, pacer, nav, batch,
                   memory, dedup, services>>

\* ---------------------------------------------------------- content_processor
\* A text is a sequence of characters; a word that the patterns of
\* clean_content_basic name is written as one character.
\* \s of re: the space and the newline.
IsSpace(c) == c \in {" ", "\n"}
\* str.lower()
lower(c) ==
    CASE c = "A" -> "a"
      [] c = "B" -> "b"
      [] OTHER -> c
\* str.strip()
RECURSIVE lstrip(_)
lstrip(s) ==
    IF s # <<>> /\ IsSpace(Head(s)) THEN lstrip(Tail(s)) ELSE s
RECURSIVE rstrip(_)
rstrip(s) ==
    IF s # <<>> /\ IsSpace(s[Len(s)]) THEN rstrip(SubSeq(s, 1, Len(s) - 1))
    ELSE s
strip(s) == rstrip(lstrip(s))
\* re.sub(r'\s+', ' ', s)
RECURSIVE collapse_whitespace(_)
collapse_whitespace(s) ==
    IF s = <<>> THEN <<>>
    ELSE IF IsSpace(Head(s)) THEN <<" ">> \o collapse_whitespace(lstrip(s))
    ELSE <<Head(s)>> \o collapse_whitespace(Tail(s))

\* The ttl of the ContentDeduplicator, in the clock's unit.
dedup_ttl == 1
\* ContentDeduplicator(ttl)
ContentDeduplicator(ttl) == [content_hashes |-> <<>>, ttl |-> ttl]

\* generate_content_hash(content): the MD5 digest of the normalized text,
\* which stands for it here.
generate_content_hash(content) ==
    collapse_whitespace([i \in DOMAIN strip(content) |->
                            lower(strip(content)[i])])

\* _clean_expired_hashes(current_time)
clean_expired_hashes(d, current_time) ==
    [d EXCEPT !.content_hashes =
        [h \in {k \in DOMAIN d.content_hashes :
                    ~(current_time - d.content_hashes[k] > d.ttl)} |->
            d.content_hashes[h]]]

\* is_duplicate(content) at current_time: the deduplicator afterwards and the
\* value returned.
is_duplicate_refreshing(d, content, current_time) ==
    LET content_hash == generate_content_hash(content)
        cleaned == clean_expired_hashes(d, current_time) IN
    [dedup |-> [cleaned EXCEPT !.content_hashes =
                                   (content_hash :> current_time) @@ @],
     value |-> content_hash \in DOMAIN cleaned.content_hashes]
is_duplicate(d, content, current_time) ==
    LET content_hash == generate_content_hash(content)
        cleaned == clean_expired_hashes(d, current_time) IN
    IF content_hash \in DOMAIN cleaned.content_hashes
    THEN [dedup |-> cleaned, value |-> TRUE]
    ELSE [dedup |-> [cleaned EXCEPT !.content_hashes =
                                        (content_hash :> current_time) @@ @],
          value |-> FALSE]

\* The texts passed to is_duplicate.
Contents ==
    {<<"a", " ", "b">>, <<"A", " ", "\n", "b">>, <<" ", "a", " ", "B", " ">>,
     <<"a", "b">>, <<"A", "B", "\n">>, <<"b">>}

\* A task calls deduplicator.is_duplicate(content).
IsDuplicate(content) ==
    /\ LET r == is_duplicate(dedup, content, time_time) IN
         /\ dedup' = r.dedup
         /\ returned' = Returned("is_duplicate", [content |-> content],
                                 Bool(r.value))
    /\ event' = NoEvent
    /\ UNCHANGED <<registry, enable_adaptive_rate_limiting, pacer, nav, batch,
                   memory, services>>

\* \w of re: a character of a word. "Home" stands for the words of the first
\* pattern of nav_patterns and "Copyright" for those of the second.
IsWord(c) == c \in {"a", "A", "b", "B", "x", "Home", "Copyright"}
\* \b...\b around the word at position i of s.
bounded(s, i) ==
    /\ i = 1 \/ ~IsWord(s[i - 1])
    /\ i = Len(s) \/ ~IsWord(s[i + 1])
\* re.sub(r'\b(Home|Login|...)\b', '', content): s from position i on.
RECURSIVE remove_navigation(_, _)
remove_navigation(s, i) ==
    IF i > Len(s) THEN <<>>
    ELSE (IF s[i] = "Home" /\ bounded(s, i) THEN <<>> ELSE <<s[i]>>)
             \o remove_navigation(s, i + 1)
\* re.sub(r'\b(Copyright|...)\b.*$', '', content) on a text of one line.
remove_boilerplate(s) ==
    LET at == {i \in 1..Len(s) : s[i] = "Copyright" /\ bounded(s, i)} IN
    IF at = {} THEN s
    ELSE SubSeq(s, 1, (CHOOSE i \in at : \A j \in at : i <= j) - 1)
\* re.sub(r'\.{3,}', '...', content)
RECURSIVE dots(_)
dots(s) == IF s # <<>> /\ Head(s) = "." THEN 1 + dots(Tail(s)) ELSE 0
RECURSIVE shorten_ellipsis(_)
shorten_ellipsis(s) ==
    IF s = <<>> THEN <<>>
    ELSE IF dots(s) >= 3
    THEN <<".", ".", ".">> \o shorten_ellipsis(SubSeq(s, dots(s) + 1, Len(s)))
    ELSE IF dots(s) > 0
    THEN SubSeq(s, 1, dots(s))
             \o shorten_ellipsis(SubSeq(s, dots(s) + 1, Len(s)))
    ELSE <<Head(s)>> \o shorten_ellipsis(Tail(s))
\* re.sub(r'\s+([.!?])', r'\1', content)
RECURSIVE close_punctuation(_)
close_punctuation(s) ==
    IF s = <<>> THEN <<>>
    ELSE IF IsSpace(Head(s)) /\ lstrip(s) # <<>> /\ Head(lstrip(s)) = "."
    THEN close_punctuation(lstrip(s))
    ELSE <<Head(s)>> \o close_punctuation(Tail(s))

\* clean_content_basic(content). No newline is left once whitespace runs
\* have become single spaces, so the lines joined at the end are one line.
clean_content_basic(content) ==
    IF content = <<>> THEN <<>>
    ELSE strip(strip(close_punctuation(shorten_ellipsis(remove_boilerplate(
             remove_navigation(collapse_whitespace(content), 1))))))

\* A str returned.
Text(s) == [text |-> s]
\* The characters of the texts cleaned and the length of the longest.
Characters == {"x", "Home", "Copyright", " ", "\n", "."}
MaxContent == 5

\* A task calls clean_content_basic on the raw content, and then on what
\* the call before returned.
CleanContentBasic ==
    /\ returned.call \in {"content", "clean_content_basic"}
    /\ LET content == IF returned.call = "content"
                      THEN returned.args.content
                      ELSE returned.value.text IN
         returned' = Returned("clean_content_basic", [content |-> content],
                              Text(clean_content_basic(content)))
    /\ event' = NoEvent
    /\ UNCHANGED <<registry, enable_adaptive_rate_limiting, pacer, nav, batch,
                   memory, dedup, services>>

\* ------------------------------------------------------------ session ids
\* The session ids as the clients write them: create_session names a session
\* "sess_" and the first 8 hex digits of a uuid4; the model numbers the
\* sessions and writes the number in 8 hex digits.
HexDigits == <<"0", "1", "2", "3", "4", "5", "6", "7",
               "8", "9", "a", "b", "c", "d", "e", "f">>
id_hex_length == 8
sess_ == <<"s", "e", "s", "s", "_">>
hex(n) == [i \in 1..id_hex_length |->
              HexDigits[((n \div (16 ^ (id_hex_length - i))) % 16) + 1]]
format_session_id(sid) == sess_ \o hex(sid)

\* The key of active_sessions equal to the text, 0 when there is none.
session_named(reg, session_id) ==
    IF \E i \in DOMAIN reg : format_session_id(reg[i].session_id) = session_id
    THEN (CHOOSE i \in DOMAIN reg :
              format_session_id(reg[i].session_id) = session_id)
    ELSE 0
lookup(reg, session_id) ==
    IF session_named(reg, session_id) = 0 THEN 0
    ELSE reg[session_named(reg, session_id)].session_id

startswith(s, prefix) ==
    Len(s) >= Len(prefix) /\ SubSeq(s, 1, Len(prefix)) = prefix
IsHex(c) == \E i \in DOMAIN HexDigits : HexDigits[i] = c

\* utils.validators.validate_session_id: re.match of ^sess_[a-f0-9]{8}$,
\* where $ also matches before one newline that ends the text.
validate_session_id(session_id) ==
    LET n == Len(sess_) + id_hex_length
        shaped(s) == /\ Len(s) = n
                     /\ startswith(s, sess_)
                     /\ \A i \in (Len(sess_) + 1)..n : IsHex(s[i]) IN
    /\ session_id # <<>>
    /\ \/ shaped(session_id)
       \/ /\ Len(session_id) = n + 1
          /\ session_id[n + 1] = "\n"
          /\ shaped(SubSeq(session_id, 1, n))

\* The session_id validator of the request models
\* (NavigateRequest.validate_session_id and its copies).
request_validates(v) == v # <<>> /\ startswith(v, sess_)

\* What a call raised.
Raised(error) == [error |-> error]
\* What get_session did, as the call's result.
GotSession(res) == [get_session |-> res]

\* The texts the clients send as session ids: the id of session 1 and an id
\* of no session, each also with its first or last digit replaced, shortened or
\* lengthened, behind different prefixes.
Digits(base) ==
    {base, SubSeq(base, 1, Len(base) - 1), base \o <<"0">>,
     base \o <<"\n">>, base \o <<"\n", "\n">>}
        \cup {[base EXCEPT ![p] = ch] : p \in {1, Len(base)}, ch \in {"g", "A"}}
SessionIdTexts ==
    {<<>>} \cup
    {prefix \o digits :
        prefix \in {sess_, <<>>, <<"S", "E", "S", "S", "_">>,
                    <<"s", "e", "s", "s">>},
        digits \in Digits(hex(1)) \cup Digits(hex(15))}

\* GET /sessions/{session_id}: the handler passes the path parameter to
\* get_session.
GetSessionInfo(c, session_id) ==
    /\ AtRest(c)
    /\ GetSessionStep(c, lookup(active_sessions, session_id), "get", task)
    /\ returned' = Returned("get_session", [session_id |-> session_id],
                            IF task'[c].pc = "get_close_ctx"
                            THEN GotSession("closing")
                            ELSE GotSession(event'.res))
    /\ UNCHANGED <<now, utc_offset, enable_adaptive_rate_limiting, pacer, nav,
                   batch, memory, dedup, contexts, created, browser_open,
                   session_lock, reaper, shutdown, services>>

\* POST /browser/<op>: the request model is validated, then the handler
\* calls get_session with request.session_id and starts the operation.
OperationRequest(c, session_id, op) ==
    /\ AtRest(c)
    /\ IF ~request_validates(session_id)
       THEN /\ returned' = Returned(op, [session_id |-> session_id],
                                    Raised("ValidationError"))
            /\ event' = NoEvent
            /\ UNCHANGED <<active_sessions, task>>
       ELSE /\ GetSessionStep(c, lookup(active_sessions, session_id), op,
                      [Busy(c, "browser", op,
                            lookup(active_sessions, session_id))
                          EXCEPT ![c].start_time = now])
            /\ returned' = Returned(op, [session_id |-> session_id],
                                    IF task'[c].pc = "get_close_ctx"
                                    THEN GotSession("closing")
                                    ELSE GotSession(event'.res))
    /\ UNCHANGED <<now, utc_offset, enable_adaptive_rate_limiting, pacer, nav,
                   batch, memory, dedup, contexts, created, browser_open,
                   session_lock, reaper, shutdown, services>>

\* A task calls the utility validate_session_id.
ValidateSessionId(session_id) ==
    /\ returned' = Returned("validate_session_id",
                            [session_id |-> session_id],
                            Bool(validate_session_id(session_id)))
    /\ event' = NoEvent
    /\ UNCHANGED <<registry, enable_adaptive_rate_limiting, pacer, nav, batch,
                   memory, dedup, services>>

\* ---------------------------------------------------------------- timeouts
\* The bounds of the timeout field of the request models, in milliseconds:
\* ge=1000 on all four, le=300000 on NavigateRequest and le=60000 on
\* ExtractRequest, InteractRequest and ScreenshotRequest.
timeout_ge == 1000
navigate_timeout_le == 300000
operation_timeout_le == 60000
timeout_le(op) ==
    IF op = "navigate" THEN navigate_timeout_le ELSE operation_timeout_le

\* The request model of operation op accepts the timeout.
request_accepts(op, timeout) ==
    timeout_ge <= timeout /\ timeout <= timeout_le(op)

\* _execute_operation hands operation.get("timeout") of an operation of a
\* batch to the BrowserService call; nothing examines it.
batch_accepts(op, timeout) == TRUE

\* utils.validators.validate_timeout of a timeout that is not None.
validate_timeout(timeout) == 1000 <= timeout /\ timeout <= 300000

\* The timeouts the clients send.
Timeouts == {-1, 0, 1, 999, 1000, 1001, 30000, 59999, 60000, 60001,
             299999, 300000, 300001, 2147483647}

\* POST /browser/<op> with a timeout: the request model is validated.
RequestTimeout(op, timeout) ==
    /\ returned' = Returned(op, [timeout |-> timeout, batch |-> FALSE],
                            Bool(request_accepts(op, timeout)))
    /\ event' = NoEvent
    /\ UNCHANGED <<registry, enable_adaptive_rate_limiting, pacer, nav, batch,
                   memory, dedup, services>>

\* An operation of a batch with a timeout reaches _execute_operation.
BatchOperationTimeout(op, timeout) ==
    /\ returned' = Returned(op, [timeout |-> timeout, batch |-> TRUE],
                            Bool(batch_accepts(op, timeout)))
    /\ event' = NoEvent
    /\ UNCHANGED <<registry, enable_adaptive_rate_limiting, pacer, nav, batch,
                   memory, dedup, services>>

\* A task calls the utility validate_timeout.
ValidateTimeout(timeout) ==
    /\ returned' = Returned("validate_timeout",
                            [timeout |-> timeout, batch |-> FALSE],
                            Bool(validate_timeout(timeout)))
    /\ event' = NoEvent
    /\ UNCHANGED <<registry, enable_adaptive_rate_limiting, pacer, nav, batch,
                   memory, dedup, services>>

\* ------------------------------------------------------- semantic_chunker
\* The size limits of CONTENT_TYPE_RULES["general"] (100 and 1000 characters
\* in the source), brought down to the length of the texts chunked here.
min_chunk_size == 2
max_chunk_size == 3
rules == [min_chunk_size |-> min_chunk_size,
          max_chunk_size |-> max_chunk_size,
          preferred_boundaries |-> <<"paragraph", "sentence">>,
          preserve_structure |-> FALSE]

\* Python's content[i] and content[a:b], counted from 0.
at(content, i) == content[i + 1]
slice(content, a, b) == SubSeq(content, a + 1, b)
IsPunct(c) == c \in {".", "!", "?"}

\* The end of the run of whitespace, or of punctuation, that starts at i.
RECURSIVE space_end(_, _)
space_end(content, i) ==
    IF i < Len(content) /\ IsSpace(at(content, i))
    THEN space_end(content, i + 1) ELSE i
RECURSIVE punct_end(_, _)
punct_end(content, i) ==
    IF i < Len(content) /\ IsPunct(at(content, i))
    THEN punct_end(content, i + 1) ELSE i

\* The end of the match of CHUNKING_PATTERNS[boundary_type] at i, -1 when
\* there is none: \n\s*\n for a paragraph, [.!?]+\s+ for a sentence.
match_end(boundary_type, content, i) ==
    IF boundary_type = "paragraph"
    THEN LET closing == {j \in (i + 1)..(space_end(content, i + 1) - 1) :
                            at(content, j) = "\n"} IN
         IF at(content, i) = "\n" /\ closing # {}
         THEN (CHOOSE j \in closing : \A k \in closing : k <= j) + 1
         ELSE -1
    ELSE LET p == punct_end(content, i) IN
         IF IsPunct(at(content, i)) /\ space_end(content, p) > p
         THEN space_end(content, p)
         ELSE -1

\* The starts of the matches re.finditer yields from pos on.
RECURSIVE finditer(_, _, _)
finditer(boundary_type, content, pos) ==
    IF pos >= Len(content) THEN <<>>
    ELSE IF match_end(boundary_type, content, pos) = -1
    THEN finditer(boundary_type, content, pos + 1)
    ELSE <<pos>> \o finditer(boundary_type, content,
                             match_end(boundary_type, content, pos))

\* len(text.split())
word_count(text) ==
    Cardinality({i \in DOMAIN text :
        ~IsSpace(text[i]) /\ (i = 1 \/ IsSpace(text[i - 1]))})

\* _calculate_boundary_confidence, in tenths.
calculate_boundary_confidence(content, position, boundary_type) ==
    LET context == slice(content, Max(0, position - 50),
                         Min(Len(content), position + 50))
        kind == CASE boundary_type = "paragraph" -> 3
                  [] boundary_type = "sentence" -> 2
                  [] boundary_type = "heading" -> 4
                  [] OTHER -> 0
        density == IF /\ word_count(slice(content, 0, position)) > 10
                      /\ word_count(slice(content, position, Len(content))) > 10
                   THEN 1 ELSE 0
        structure == IF \E i \in DOMAIN context : IsPunct(context[i])
                     THEN 1 ELSE 0 IN
    Min(10, 5 + kind + density + structure)

\* boundaries.sort(key=position): the sort keeps the order of equal keys.
RECURSIVE sort_by_position(_, _, _)
sort_by_position(boundaries, position, last) ==
    IF position > last THEN <<>>
    ELSE SelectSeq(boundaries, LAMBDA b : b.position = position)
            \o sort_by_position(boundaries, position + 1, last)

RECURSIVE boundaries_of(_, _)
boundaries_of(content, boundary_types) ==
    IF boundary_types = <<>> THEN <<>>
    ELSE LET boundary_type == Head(boundary_types)
             starts == finditer(boundary_type, content, 0) IN
         [i \in DOMAIN starts |->
             [position |-> starts[i], boundary_type |-> boundary_type,
              confidence |-> calculate_boundary_confidence(
                                 content, starts[i], boundary_type)]]
            \o boundaries_of(content, Tail(boundary_types))

find_semantic_boundaries(content) ==
    sort_by_position(boundaries_of(content, rules.preferred_boundaries),
                     0, Len(content))

Chunk(content, chunk_type, start_index, end_index, confidence) ==
    [content |-> content, chunk_type |-> chunk_type,
     start_index |-> start_index, end_index |-> end_index,
     confidence |-> confidence,
     metadata |-> [size |-> Len(content), word_count |-> word_count(content)]]

\* _split_large_chunk from current_start on: the split falls after the last
\* sentence end of the second half of the window, or at the window's end.
RECURSIVE split_large_chunk(_, _, _, _)
split_large_chunk(content, start_index, max_size, current_start) ==
    IF current_start >= Len(content) THEN <<>>
    ELSE LET end_pos == Min(current_start + max_size, Len(content))
             ends == {i \in (current_start + (max_size \div 2) + 1)
                                ..(end_pos - 1) : IsPunct(at(content, i))}
             best_split == IF ends = {} THEN end_pos
                           ELSE (CHOOSE i \in ends : \A k \in ends : k <= i)
                                    + 1
             chunk_content == strip(slice(content, current_start, best_split))
         IN
         (IF Len(chunk_content) >= rules.min_chunk_size
          THEN <<Chunk(chunk_content, "split", start_index + current_start,
                       start_index + best_split, 6)>>
          ELSE <<>>)
            \o split_large_chunk(content, start_index, max_size, best_split)

\* The remaining content after the last chunk.
remaining(content, start) ==
    IF start < Len(content)
          /\ Len(strip(slice(content, start, Len(content))))
                >= rules.min_chunk_size
    THEN <<Chunk(strip(slice(content, start, Len(content))), "remaining",
                 start, Len(content), 5)>>
    ELSE <<>>

\* _create_chunks from boundary i on, the chunk under way starting at start.
RECURSIVE create_chunks(_, _, _, _, _)
create_chunks(content, boundaries, confidence_threshold, i, start) ==
    IF i > Len(boundaries) THEN remaining(content, start)
    ELSE LET b == boundaries[i]
             chunk_content == strip(slice(content, start, b.position)) IN
         IF b.confidence < confidence_threshold
         THEN create_chunks(content, boundaries, confidence_threshold,
                            i + 1, start)
         ELSE IF Len(chunk_content) < rules.min_chunk_size
         THEN create_chunks(content, boundaries, confidence_threshold,
                            i + 1, start)
         ELSE (IF Len(chunk_content) > rules.max_chunk_size
               THEN split_large_chunk(chunk_content, start,
                                      rules.max_chunk_size, 0)
               ELSE <<Chunk(chunk_content, b.boundary_type, start,
                            b.position, b.confidence)>>)
                \o create_chunks(content, boundaries, confidence_threshold,
                                 i + 1, b.position)

chunk_content(content, confidence_threshold) ==
    IF content = <<>> THEN <<>>
    ELSE create_chunks(content, find_semantic_boundaries(content),
                       confidence_threshold, 1, 0)

\* The chunks returned.
Chunks(chunks) == [chunks |-> chunks]
\* The characters of the texts chunked, the length of the longest and the
\* confidence thresholds, in tenths.
ChunkCharacters == {"x", " ", "\n", "."}
MaxChunked == 6
ConfidenceThresholds == {7, 9}

\* A task calls chunk_content on a text.
ChunkContent ==
    /\ returned.call = "content"
    /\ returned' = Returned("chunk_content", returned.args,
                            Chunks(chunk_content(
                                returned.args.content,
                                returned.args.confidence_threshold)))
    /\ event' = NoEvent
    /\ UNCHANGED <<registry, enable_adaptive_rate_limiting, pacer, nav, batch,
                   memory, dedup, services>>

\* --------------------------------------------------------- ResourceMonitor
\* max_history_size (1000 in the source), brought down to the number of
\* samples collected here.
max_history_size == 2
\* The samples collected at most, and the cpu readings.
MaxCollected == 4
CpuPercents == {10, 90}

SystemMetrics(t, cpu_percent) ==
    [timestamp |-> t, cpu_percent |-> cpu_percent]

\* ResourceMonitor(): an empty history; collected lists every sample taken.
ResourceMonitor == [system_metrics_history |-> <<>>, collected |-> <<>>]

\* "Store metrics" of _collect_metrics: append, then pop(0) when the
\* history is longer than max_history_size.
store_metrics_pop_last(history, system_metrics) ==
    LET appended == Append(history, system_metrics) IN
    IF Len(appended) > max_history_size
    THEN SubSeq(appended, 1, Len(appended) - 1) ELSE appended
store_metrics(history, system_metrics) ==
    LET appended == Append(history, system_metrics) IN
    IF Len(appended) > max_history_size THEN Tail(appended) ELSE appended

\* _collect_metrics: psutil is read and the sample is stored, or psutil
\* raises and the error is logged.
CollectMetrics ==
    /\ Len(monitor.collected) < MaxCollected
    /\ \E cpu_percent \in CpuPercents, raised \in BOOLEAN :
        LET system_metrics == SystemMetrics(time_time, cpu_percent) IN
        monitor' =
            IF raised THEN monitor
            ELSE [system_metrics_history |->
                      store_metrics(monitor.system_metrics_history,
                                    system_metrics),
                  collected |-> Append(monitor.collected, system_metrics)]
    /\ event' = NoEvent
    /\ UNCHANGED <<registry, enable_adaptive_rate_limiting, pacer, nav, batch,
                   memory, library, rotator, limiter,
                   auth, cache>>

\* ------------------------------------------------------------ ProxyRotator
\* mark_failure puts a proxy in failed_proxies once it has failed more than
\* 3 times.
failure_threshold == 3
\* The failures and successes marked at most per proxy, and the lengths of
\* the proxy lists.
MaxFailures == 4
MaxSuccesses == 1
ProxyCounts == {0, 2}

\* ProxyRotator(proxies) for a list of n proxies, indexed from 0.
ProxyRotator(n) ==
    [proxies |-> n, current_index |-> 0, failed_proxies |-> {},
     proxy_stats |-> [i \in 0..(n - 1) |->
                        [success |-> 0, failures |-> 0, last_used |-> 0]]]

\* The weight of a proxy in the draw, in thousandths: 0.7 of its success
\* rate and 0.3 of 1 / (1 + hours since last used).
weight(stats, current_time) ==
    (700 * stats.success) \div Max(stats.success + stats.failures, 1)
        + (300 * 3600) \div (3600 + (current_time - stats.last_used))

\* The indexes get_next_proxy chooses among: the proxies not failed, or all
\* of them when every one is failed.
available_proxies(r) ==
    IF (0..(r.proxies - 1)) \ r.failed_proxies = {}
    THEN 0..(r.proxies - 1)
    ELSE (0..(r.proxies - 1)) \ r.failed_proxies

\* A proxy returned, or None.
Proxy(i) == [proxy |-> i]
NoProxy == [proxy |-> -1]

\* get_next_proxy: random.choices draws an available proxy of positive
\* weight and raises ValueError when the weights sum to zero.
GetNextProxy ==
    /\ LET available == available_proxies(rotator)
           cleared == IF (0..(rotator.proxies - 1)) \ rotator.failed_proxies = {}
                      THEN {} ELSE rotator.failed_proxies
           args == [failed_proxies |-> rotator.failed_proxies] IN
       IF available = {}
       THEN /\ rotator' = [rotator EXCEPT !.failed_proxies = cleared]
            /\ returned' = Returned("get_next_proxy", args, NoProxy)
       ELSE IF \A i \in available :
                  weight(rotator.proxy_stats[i], time_time) = 0
       THEN /\ rotator' = [rotator EXCEPT !.failed_proxies = cleared]
            /\ returned' = Returned("get_next_proxy", args,
                                    Raised("ValueError"))
       ELSE \E i \in available :
            /\ weight(rotator.proxy_stats[i], time_time) > 0
            /\ rotator' = [rotator EXCEPT
                              !.failed_proxies = cleared,
                              !.current_index = i,
                              !.proxy_stats[i].last_used = time_time]
            /\ returned' = Returned("get_next_proxy", args, Proxy(i))
    /\ event' = NoEvent
    /\ UNCHANGED <<registry, enable_adaptive_rate_limiting, pacer, nav, batch,
                   memory, dedup, monitor, limiter, auth, cache>>

\* mark_success(proxy_index)
mark_success(r, proxy_index) ==
    [r EXCEPT !.proxy_stats[proxy_index].success = @ + 1,
              !.failed_proxies = @ \ {proxy_index}]

MarkSuccess(proxy_index) ==
    /\ proxy_index \in DOMAIN rotator.proxy_stats
    /\ rotator.proxy_stats[proxy_index].success < MaxSuccesses
    /\ rotator' = mark_success(rotator, proxy_index)
    /\ returned' = Returned("mark_success",
                            [failed_proxies |-> rotator.failed_proxies,
                             proxy_index |-> proxy_index], NoProxy)
    /\ event' = NoEvent
    /\ UNCHANGED <<registry, enable_adaptive_rate_limiting, pacer, nav, batch,
                   memory, dedup, monitor, limiter, auth, cache>>

\* mark_failure(proxy_index)
mark_failure_from_threshold(r, proxy_index) ==
    LET failures == r.proxy_stats[proxy_index].failures + 1 IN
    [r EXCEPT !.proxy_stats[proxy_index].failures = failures,
              !.failed_proxies = IF failures >= failure_threshold
                                 THEN @ \cup {proxy_index} ELSE @]
mark_failure(r, proxy_index) ==
    LET failures == r.proxy_stats[proxy_index].failures + 1 IN
    [r EXCEPT !.proxy_stats[proxy_index].failures = failures,
              !.failed_proxies = IF failures > failure_threshold
                                 THEN @ \cup {proxy_index} ELSE @]

MarkFailure(proxy_index) ==
    /\ proxy_index \in DOMAIN rotator.proxy_stats
    /\ rotator.proxy_stats[proxy_index].failures < MaxFailures
    /\ rotator' = mark_failure(rotator, proxy_index)
    /\ returned' = Returned("mark_failure",
                            [failed_proxies |-> rotator.failed_proxies,
                             proxy_index |-> proxy_index], NoProxy)
    /\ event' = NoEvent
    /\ UNCHANGED <<registry, enable_adaptive_rate_limiting, pacer, nav, batch,
                   memory, dedup, monitor, limiter, auth, cache>>

\* ----------------------------------------------------- RateLimitMiddleware
\* requests_per_minute (100 by default) and the 60 seconds a request is
\* kept, scaled down.
requests_per_minute == 2
minute == 2
\* The clock's last instant where the components that age their entries are
\* followed, and the requests dispatched at most.
MaxElapsed == 4
MaxDispatched == 5
ClientIps == {1, 2}

\* Time passes; unlike Tick, up to MaxElapsed.
Elapse ==
    /\ now < MaxElapsed
    /\ now' = now + 1
    /\ event' = NoEvent
    /\ UNCHANGED <<utc_offset, calls, active_sessions, contexts, created,
                   browser_open, session_lock, task, reaper, shutdown>>

\* RateLimitMiddleware(app, requests_per_minute); requests maps the client
\* addresses seen to their request times, admitted lists the requests
\* passed on to call_next and dispatched counts the calls.
RateLimitMiddleware(limit) ==
    [requests_per_minute |-> limit, requests |-> <<>>, admitted |-> <<>>,
     dispatched |-> 0]

\* The response of dispatch: what call_next answered, or HTTPException(429).
Response(status_code) == [status_code |-> status_code]

\* The request times of the last minute.
last_minute_inclusive(times, current_time) ==
    SelectSeq(times, LAMBDA req_time : current_time - req_time <= minute)
last_minute(times, current_time) ==
    SelectSeq(times, LAMBDA req_time : current_time - req_time < minute)

\* dispatch(request, call_next) for a request of client_ip
Dispatch(client_ip) ==
    /\ limiter.dispatched < MaxDispatched
    /\ LET current_time == time_time
           kept == IF client_ip \in DOMAIN limiter.requests
                   THEN last_minute(limiter.requests[client_ip], current_time)
                   ELSE <<>>
           cleaned == (client_ip :> kept) @@ limiter.requests
           args == [client_ip |-> client_ip, current_time |-> current_time] IN
       IF Len(kept) >= limiter.requests_per_minute
       THEN /\ limiter' = [limiter EXCEPT !.requests = cleaned,
                                          !.dispatched = @ + 1]
            /\ returned' = Returned("dispatch", args, Response(429))
       ELSE /\ limiter' = [limiter EXCEPT
                              !.requests = (client_ip :> Append(kept, current_time))
                                               @@ limiter.requests,
                              !.admitted = Append(@, args),
                              !.dispatched = @ + 1]
            /\ returned' = Returned("dispatch", args, Response(200))
    /\ event' = NoEvent
    /\ UNCHANGED <<registry, enable_adaptive_rate_limiting, pacer, nav, batch,
                   memory, dedup, monitor, rotator, auth, cache>>

\* -------------------------------------------------------------- AuthService
\* The length of secrets.token_urlsafe(24) (32 characters), scaled down, and
\* the keys created at most.
token_length == 8
MaxIssued == 2
\* A day of expires_in_days, in the clock's unit.
day == 1

surf_ == <<"s", "u", "r", "f", "_">>
key_ == <<"k", "e", "y", "_">>
\* s[a:b] of Python for 0 <= a.
substring(s, a, b) ==
    IF a >= Len(s) \/ a >= b THEN <<>>
    ELSE SubSeq(s, a + 1, IF b < Len(s) THEN b ELSE Len(s))

\* The tokens secrets.token_urlsafe draws: a beginning, filled up with "A".
token(stem) == stem \o [i \in 1..(token_length - Len(stem)) |-> "A"]
Tokens == {token(<<"a", "b", "c">>), token(<<"a", "b", "c", "d">>),
           token(<<"x", "y", "z">>),
           token(<<"s", "u", "r", "f", "_", "s", "u", "r">>)}

\* SecurityConfig.generate_api_key, for the token drawn
generate_api_key(tok) == surf_ \o tok
\* SecurityConfig.hash_api_key: the SHA-256 digest, which the key stands for.
hash_api_key(api_key) == [sha256 |-> api_key]

\* The key id create_api_key files the key under, and the one
\* verify_api_key looks it up under.
created_key_id(api_key) == key_ \o substring(api_key, 0, 8)
verified_key_id(api_key) == key_ \o substring(api_key, 5, 13)

\* _validate_scopes(scopes)
valid_scopes == {"browser:read", "browser:write", "sessions:read",
                 "sessions:write", "sessions:manage", "admin:all"}
validate_scopes(scopes) == \A i \in DOMAIN scopes : scopes[i] \in valid_scopes

\* AuthService(); issued lists what create_api_key returned and revoked
\* holds the hashes of the keys revoke_api_key deactivated.
AuthService ==
    [initialized |-> FALSE, api_keys |-> <<>>, issued |-> <<>>,
     revoked |-> {}]

\* An expires_at: None is the empty set.
NoExpiry == {}
ExpiresAt(t) == {t}
key_expired(expires_at, utcnow) == \E t \in expires_at : utcnow > t

\* What verify_api_key returns for a key it accepts, and for one it does not
\* (None).
Verified(key_id, data) ==
    [key_id |-> key_id, user_id |-> data.user_id, scopes |-> data.scopes,
     name |-> data.name]
NotVerified == [none |-> TRUE]

UserIds == {"alice", "bob"}
ScopeLists == {<<"browser:read">>, <<"root">>}
ExpiresInDays == {0, 1}
ApiKeys == {generate_api_key(tok) : tok \in Tokens} \cup {key_}
KeyIds == {created_key_id(k) : k \in ApiKeys}
              \cup {verified_key_id(k) : k \in ApiKeys}

AuthFrame ==
    /\ event' = NoEvent
    /\ UNCHANGED <<registry, enable_adaptive_rate_limiting, pacer, nav, batch,
                   memory, dedup, monitor, rotator, limiter, cache>>

\* initialize()
Initialize ==
    /\ auth' = [auth EXCEPT !.initialized = TRUE]
    /\ returned' = Returned("initialize", <<>>, <<>>)
    /\ AuthFrame

\* create_api_key(name, scopes, user_id, expires_in_days); the token drawn
\* is one never drawn before.
CreateApiKey(scopes, user_id, expires_in_days) ==
    /\ Len(auth.issued) < MaxIssued
    /\ LET args == [scopes |-> scopes, user_id |-> user_id,
                    expires_in_days |-> expires_in_days] IN
       IF ~auth.initialized
       THEN /\ returned' = Returned("create_api_key", args,
                                    Raised("AuthenticationError"))
            /\ UNCHANGED auth
       ELSE IF ~validate_scopes(scopes)
       THEN /\ returned' = Returned("create_api_key", args,
                                    Raised("ValidationError"))
            /\ UNCHANGED auth
       ELSE \E tok \in Tokens :
            LET api_key == generate_api_key(tok)
                key_id == created_key_id(api_key)
                expires_at == IF expires_in_days # 0
                              THEN ExpiresAt(now + expires_in_days * day)
                              ELSE NoExpiry
                api_key_data == [key_id |-> key_id,
                                 hashed_key |-> hash_api_key(api_key),
                                 name |-> "name", scopes |-> scopes,
                                 user_id |-> user_id, created_at |-> now,
                                 expires_at |-> expires_at,
                                 is_active |-> TRUE]
                result == [api_key |-> api_key, key_id |-> key_id,
                           scopes |-> scopes, expires_at |-> expires_at]
            IN
            /\ \A k \in DOMAIN auth.issued : auth.issued[k].api_key # api_key
            /\ auth' = [auth EXCEPT
                           !.api_keys = (key_id :> api_key_data) @@ @,
                           !.issued = Append(@, result)]
            /\ returned' = Returned("create_api_key", args, result)
    /\ AuthFrame

\* verify_api_key(api_key)
verify_api_key(a, api_key, utcnow) ==
    LET key_id == verified_key_id(api_key) IN
    IF ~startswith(api_key, surf_) THEN NotVerified
    ELSE IF key_id \notin DOMAIN a.api_keys THEN NotVerified
    ELSE IF ~a.api_keys[key_id].is_active THEN NotVerified
    ELSE IF key_expired(a.api_keys[key_id].expires_at, utcnow) THEN NotVerified
    ELSE IF a.api_keys[key_id].hashed_key # hash_api_key(api_key) THEN NotVerified
    ELSE Verified(key_id, a.api_keys[key_id])

VerifyApiKey(api_key) ==
    /\ returned' = Returned("verify_api_key",
                            [api_key |-> api_key, utcnow |-> now],
                            IF ~auth.initialized
                            THEN Raised("AuthenticationError")
                            ELSE verify_api_key(auth, api_key, now))
    /\ UNCHANGED auth
    /\ AuthFrame

\* revoke_api_key(key_id, user_id)
RevokeApiKey(key_id, user_id) ==
    /\ LET args == [key_id |-> key_id, user_id |-> user_id,
                    api_keys |-> auth.api_keys] IN
       IF key_id \notin DOMAIN auth.api_keys
       THEN /\ returned' = Returned("revoke_api_key", args, Bool(FALSE))
            /\ UNCHANGED auth
       ELSE IF auth.api_keys[key_id].user_id # user_id
       THEN /\ returned' = Returned("revoke_api_key", args, Bool(FALSE))
            /\ UNCHANGED auth
       ELSE /\ auth' = [auth EXCEPT
                           !.api_keys[key_id].is_active = FALSE,
                           !.revoked = @ \cup {auth.api_keys[key_id].hashed_key}]
            /\ returned' = Returned("revoke_api_key", args, Bool(TRUE))
    /\ AuthFrame

\* ------------------------------------------------------------- CacheService
\* settings.cache_ttl (SURF_CACHE_TTL, default 300), scaled down, and the
\* calls of set and get_or_set at most.
cache_ttl == 3
MaxSets == 3
CacheKeys == {"k1", "k2"}
\* Python's None, as get returns it for a key it has no value of.
none == [none |-> TRUE]
Value(v) == [value |-> v]
\* The values cached, and the one the factory of get_or_set makes.
CacheValues == {Value("page"), none}
made == Value("made")
\* The ttl arguments: None is the empty set.
NoTtl == {}
Ttl(n) == {n}
Ttls == {NoTtl, Ttl(0), Ttl(1), Ttl(2)}

\* CacheService() with no Redis client; sets counts the calls that wrote and
\* latest keeps, for each key, the entry of its latest set.
CacheService ==
    [initialized |-> FALSE, memory_cache |-> <<>>, latest |-> <<>>,
     sets |-> 0]

\* d without its key k
without(d, k) == [x \in DOMAIN d \ {k} |-> d[x]]

\* ttl or settings.cache_ttl
actual_ttl(ttl) == IF ttl = NoTtl \/ ttl = Ttl(0) THEN cache_ttl
                   ELSE CHOOSE n \in ttl : TRUE

\* get(key) on the memory cache: the value returned and the cache left.
get(memory_cache, key, current_time) ==
    IF key \notin DOMAIN memory_cache
    THEN [value |-> none, memory_cache |-> memory_cache]
    ELSE IF current_time < memory_cache[key].expires_at
    THEN [value |-> memory_cache[key].value, memory_cache |-> memory_cache]
    ELSE [value |-> none, memory_cache |-> without(memory_cache, key)]

\* set(key, value, ttl) on the memory cache: the cache left.
set(memory_cache, key, value, ttl, current_time) ==
    (key :> [value |-> value, expires_at |-> current_time + actual_ttl(ttl)])
        @@ memory_cache

\* exists(key) on the memory cache
exists(memory_cache, key, current_time) ==
    IF key \notin DOMAIN memory_cache
    THEN [value |-> Bool(FALSE), memory_cache |-> memory_cache]
    ELSE IF current_time < memory_cache[key].expires_at
    THEN [value |-> Bool(TRUE), memory_cache |-> memory_cache]
    ELSE [value |-> Bool(FALSE), memory_cache |-> without(memory_cache, key)]

CacheFrame ==
    /\ event' = NoEvent
    /\ UNCHANGED <<registry, enable_adaptive_rate_limiting, pacer, nav, batch,
                   memory, dedup, monitor, rotator, limiter, auth>>

\* What a call of the cache was given: its arguments, the instant and the
\* memory cache it found.
CacheArgs(key, ttl) ==
    [key |-> key, ttl |-> ttl, current_time |-> time_time,
     memory_cache |-> cache.memory_cache]

\* initialize(), with no redis_url configured
CacheInitialize ==
    /\ cache' = [cache EXCEPT !.initialized = TRUE]
    /\ returned' = Returned("cache.initialize", <<>>, none)
    /\ CacheFrame

\* get(key)
CacheGet(key) ==
    /\ IF ~cache.initialized
       THEN /\ returned' = Returned("get", CacheArgs(key, NoTtl),
                                    Raised("CacheError"))
            /\ UNCHANGED cache
       ELSE LET got == get(cache.memory_cache, key, time_time) IN
            /\ cache' = [cache EXCEPT !.memory_cache = got.memory_cache]
            /\ returned' = Returned("get", CacheArgs(key, NoTtl), got.value)
    /\ CacheFrame

\* set(key, value, ttl)
CacheSet(key, value, ttl) ==
    /\ cache.sets < MaxSets
    /\ IF ~cache.initialized
       THEN /\ returned' = Returned("set", CacheArgs(key, ttl),
                                    Raised("CacheError"))
            /\ UNCHANGED cache
       ELSE LET memory_cache == set(cache.memory_cache, key, value, ttl,
                                    time_time) IN
            /\ cache' = [cache EXCEPT
                            !.memory_cache = memory_cache,
                            !.latest = (key :> memory_cache[key]) @@ @,
                            !.sets = @ + 1]
            /\ returned' = Returned("set", CacheArgs(key, ttl), Bool(TRUE))
    /\ CacheFrame

\* exists(key)
CacheExists(key) ==
    /\ IF ~cache.initialized
       THEN /\ returned' = Returned("exists", CacheArgs(key, NoTtl),
                                    Raised("CacheError"))
            /\ UNCHANGED cache
       ELSE LET found == exists(cache.memory_cache, key, time_time) IN
            /\ cache' = [cache EXCEPT !.memory_cache = found.memory_cache]
            /\ returned' = Returned("exists", CacheArgs(key, NoTtl),
                                    found.value)
    /\ CacheFrame

\* get_or_set(key, factory_func, ttl), the factory making the value made;
\* the result tells whether the factory was invoked.
CacheGetOrSet(key, ttl) ==
    /\ cache.sets < MaxSets
    /\ IF ~cache.initialized
       THEN /\ returned' = Returned("get_or_set", CacheArgs(key, ttl),
                                    Raised("CacheError"))
            /\ UNCHANGED cache
       ELSE LET got == get(cache.memory_cache, key, time_time) IN
            IF got.value # none
            THEN /\ cache' = [cache EXCEPT !.memory_cache = got.memory_cache]
                 /\ returned' = Returned("get_or_set", CacheArgs(key, ttl),
                                         [returns |-> got.value,
                                          factory_invoked |-> FALSE])
            ELSE LET memory_cache == set(got.memory_cache, key, made, ttl,
                                         time_time) IN
                 /\ cache' = [cache EXCEPT
                                 !.memory_cache = memory_cache,
                                 !.latest = (key :> memory_cache[key]) @@ @,
                                 !.sets = @ + 1]
                 /\ returned' = Returned("get_or_set", CacheArgs(key, ttl),
                                         [returns |-> made,
                                          factory_invoked |-> TRUE])
    /\ CacheFrame

\* No utility has been called and nothing has been seen.
LibraryAtRest ==
    /\ dedup = ContentDeduplicator(dedup_ttl)
    /\ returned = NoCall

\* The components beside the services, as constructed.
ServicesAtRest ==
    /\ monitor = ResourceMonitor
    /\ rotator = ProxyRotator(0)
    /\ limiter = RateLimitMiddleware(requests_per_minute)
    /\ auth = AuthService
    /\ cache = CacheService

\* ------------------------------------------- BrowserService.navigate_to_url
\* _navigate_with_retry(max_retries=3): the number of page.goto attempts.
max_retries == 3
\* asyncio.sleep(2 ** attempt) after the failed attempt, in seconds.
backoff(attempt) == 2 ^ attempt

\* random.uniform(0, 1.0) of get_next_delay, in milliseconds.
Jitters == {0, 1000}
\* navigate_to_url is called at most MaxNavigates times in a behaviour.
MaxNavigates == 10

\* No navigate_to_url call in flight. calls, failed_calls and last_failed
\* count the calls made so far, those that raised, and whether the last one
\* did; gotos and slept are the page.goto calls and the backoff sleeps of
\* the last call, site_memory the record it loaded.
NavIdle ==
    [pc |-> "idle", sid |-> 0, url |-> 0, attempt |-> 0, gotos |-> 0,
     slept |-> <<>>, calls |-> 0, failed_calls |-> 0, last_failed |-> FALSE,
     site_memory |-> None]

\* The success argument of adaptive_rate_limiter.wait_if_needed in
\* navigate_to_url: the literal True.
wait_success_reported(last_failed) == ~last_failed
wait_success(last_failed) == TRUE

\* get_site_memory, save_site_memory and update_access_stats catch
\* Exception and return None or False: a call on which the database fails
\* does not raise.
site_memory_raises_on_failure(ok) == ~ok
site_memory_raises(ok) == FALSE

\* site_memory = self.site_memory_manager.get_site_memory(url) when site
\* memory is enabled, before the first page.goto.
NavLoad(url, read_ok) ==
    IF enable_site_memory
    THEN get_site_memory(site_memory_table, url, read_ok)
    ELSE None

\* self.site_memory_manager.update_access_stats(url, success) when site
\* memory is enabled, at the end of navigate_to_url.
NavAccess_loaded(url, success, read_ok, write_ok) ==
    IF enable_site_memory
    THEN LET w == IF nav.site_memory = None
                  THEN Written(site_memory_table, FALSE)
                  ELSE save_site_memory(
                           site_memory_table,
                           [nav.site_memory EXCEPT
                               !.access_count = @ + 1,
                               !.last_accessed = time_time,
                               !.success_rate = moving_average(@, success)],
                           time_time, write_ok) IN
         /\ site_memory_table' = w.table
         /\ access_log' = logged(url, success, NoPerformanceData, w.value)
    ELSE UNCHANGED <<site_memory_table, access_log>>
NavAccess(url, success, read_ok, write_ok) ==
    IF enable_site_memory
    THEN LET w == update_access_stats(site_memory_table, url, success,
                                      NoPerformanceData, time_time, read_ok,
                                      write_ok) IN
         /\ site_memory_table' = w.table
         /\ access_log' = logged(url, success, NoPerformanceData, w.value)
    ELSE UNCHANGED <<site_memory_table, access_log>>

\* The except branch of navigate_to_url: site memory and resource monitor
\* are told of the failure and BrowserOperationError("navigate") is raised.
NavRaise_unwrapped ==
    /\ nav' = [nav EXCEPT !.pc = "idle", !.failed_calls = @ + 1,
                          !.last_failed = TRUE]
    /\ \E read_ok \in BOOLEAN, write_ok \in BOOLEAN :
            NavAccess(nav.url, FALSE, read_ok, write_ok)
    /\ event' = Outcome("goto", nav.sid, "Error")
NavRaise ==
    /\ nav' = [nav EXCEPT !.pc = "idle", !.failed_calls = @ + 1,
                          !.last_failed = TRUE]
    /\ \E read_ok \in BOOLEAN, write_ok \in BOOLEAN :
            NavAccess(nav.url, FALSE, read_ok, write_ok)
    /\ event' = Outcome("navigate", nav.sid, "BrowserOperationError")

\* The call of navigate_to_url loads the site memory and issues the first
\* page.goto; an exception of the load would be handled by the except
\* branch.
NavFirstGoto(call) ==
    \E read_ok \in BOOLEAN :
        IF enable_site_memory /\ site_memory_raises(read_ok)
        THEN /\ nav' = [call EXCEPT !.pc = "idle", !.failed_calls = @ + 1,
                                    !.last_failed = TRUE]
             /\ \E again_ok \in BOOLEAN, write_ok \in BOOLEAN :
                    NavAccess(call.url, FALSE, again_ok, write_ok)
             /\ event' = Outcome("navigate", call.sid,
                                 "BrowserOperationError")
        ELSE /\ nav' = [call EXCEPT !.pc = "goto", !.gotos = 1,
                                    !.site_memory =
                                        NavLoad(call.url, read_ok)]
             /\ UNCHANGED <<site_memory_table, access_log>>
             /\ event' = NoEvent

\* navigate_to_url(session, url) is called with a registered session, up to
\* its first suspension: BrowserOperationError when the service is not
\* initialized; the pacer's wait_if_needed (asyncio.sleep when the delay,
\* current_delay plus jitter, is positive); or the site memory is loaded and
\* the first page.goto issued.
NavigateToUrl(sid, url, initialized) ==
    /\ nav.pc = "idle"
    /\ nav.calls < MaxNavigates
    /\ Len(access_log[url].calls) < MaxAccesses
    /\ Registered(sid)
    /\ LET call == [nav EXCEPT !.sid = sid, !.url = url, !.attempt = 0,
                               !.gotos = 0, !.slept = <<>>,
                               !.calls = @ + 1, !.site_memory = None] IN
       IF ~initialized
       THEN /\ nav' = [call EXCEPT !.failed_calls = @ + 1,
                                   !.last_failed = TRUE]
            /\ event' = Outcome("navigate", sid, "BrowserOperationError")
            /\ UNCHANGED <<pacer, site_memory_table, access_log>>
       ELSE IF enable_adaptive_rate_limiting
       THEN /\ pacer' = get_next_delay(pacer, wait_success(nav.last_failed))
            /\ \E jitter \in Jitters :
                 IF pacer'.current_delay + jitter > 0
                 THEN /\ nav' = [call EXCEPT !.pc = "pacer_sleep"]
                      /\ event' = NoEvent
                      /\ UNCHANGED <<site_memory_table, access_log>>
                 ELSE NavFirstGoto(call)
       ELSE /\ NavFirstGoto(call)
            /\ UNCHANGED pacer
    /\ UNCHANGED <<registry, enable_adaptive_rate_limiting, batch,
                   enable_site_memory, library, services>>

\* The pacer's sleep is over: the site memory is loaded and the first
\* page.goto is issued.
NavPacerWake ==
    /\ nav.pc = "pacer_sleep"
    /\ NavFirstGoto(nav)
    /\ UNCHANGED <<registry, enable_adaptive_rate_limiting, pacer, batch,
                   enable_site_memory, library, services>>

\* page.goto returns a response, or raises: the last attempt's exception is
\* raised to navigate_to_url, an earlier one is followed by the backoff sleep.
NavGoto ==
    /\ nav.pc = "goto"
    /\ \/ /\ nav' = [nav EXCEPT !.pc = "settle"]
          /\ event' = NoEvent
          /\ UNCHANGED <<site_memory_table, access_log>>
       \/ IF nav.attempt = max_retries - 1
          THEN NavRaise
          ELSE /\ nav' = [nav EXCEPT !.pc = "backoff",
                              !.slept = Append(@, backoff(nav.attempt))]
               /\ event' = NoEvent
               /\ UNCHANGED <<site_memory_table, access_log>>
    /\ UNCHANGED <<registry, enable_adaptive_rate_limiting, pacer, batch,
                   enable_site_memory, library, services>>

\* The backoff sleep is over: the next attempt's page.goto is issued.
NavBackoffOver ==
    /\ nav.pc = "backoff"
    /\ nav' = [nav EXCEPT !.pc = "goto", !.attempt = @ + 1, !.gotos = @ + 1]
    /\ event' = NoEvent
    /\ UNCHANGED <<registry, enable_adaptive_rate_limiting, pacer, batch,
                   memory, library, services>>

\* wait_for_load_state (its failure is ignored) and the human-behaviour
\* stage are over, session.context.url = page.url and page.title() is
\* awaited; or the human-behaviour stage raised.
NavSettle ==
    /\ nav.pc = "settle"
    /\ \/ /\ active_sessions' =
                [active_sessions EXCEPT ![Idx(active_sessions, nav.sid)].url =
                                            nav.url]
          /\ nav' = [nav EXCEPT !.pc = "title"]
          /\ event' = NoEvent
          /\ UNCHANGED <<site_memory_table, access_log>>
       \/ /\ NavRaise
          /\ UNCHANGED active_sessions
    /\ UNCHANGED <<now, utc_offset, contexts, created, browser_open,
                   session_lock, task, reaper, shutdown,
                   enable_adaptive_rate_limiting, pacer, batch,
                   enable_site_memory, library, services>>

\* page.title() returns, session.context.title is set, site memory is told
\* of the success (an exception of that call would be handled by the except
\* branch) and navigate_to_url returns its result.
NavTitleReturns ==
    /\ active_sessions' =
          [active_sessions EXCEPT ![Idx(active_sessions, nav.sid)].title =
                                      nav.url]
    /\ \E read_ok \in BOOLEAN, write_ok \in BOOLEAN :
          IF enable_site_memory /\ site_memory_raises(read_ok /\ write_ok)
          THEN NavRaise
          ELSE /\ nav' = [nav EXCEPT !.pc = "idle", !.last_failed = FALSE]
               /\ NavAccess(nav.url, TRUE, read_ok, write_ok)
               /\ event' = Outcome("navigate", nav.sid, "ok")

\* The last step of navigate_to_url: page.title() returns or raises.
NavTitle ==
    /\ nav.pc = "title"
    /\ \/ NavTitleReturns
       \/ /\ NavRaise
          /\ UNCHANGED active_sessions
    /\ UNCHANGED <<now, utc_offset, contexts, created, browser_open,
                   session_lock, task, reaper, shutdown,
                   enable_adaptive_rate_limiting, pacer, batch,
                   enable_site_memory, library, services>>

\* ---------------------------------------------------------- batch_operations
\* The operation types _execute_operation knows.
KnownTypes == {"navigate", "extract", "extract_structured", "detect_captcha",
               "interact", "screenshot"}
\* The "type" of the operations sent in a batch: a known one and an unknown.
OpTypes == {"navigate", "bogus"}
\* A batch holds at most MaxOps operations.
MaxOps == 3
\* max_concurrent runs over -1..MaxConcurrent.
MaxConcurrent == 2

\* The response of no batch, and the HTTP 500 of the handler's last except.
NoResponse == [status |-> "none"]
BatchFailed == [status |-> "error"]

\* No batch in flight. status and task_result hold, for each operation, how
\* far it is ("pending", "running" in a BrowserService call, "done") and
\* what _execute_operation returned for it; finished is the order in which
\* the operations were done; value is the semaphore's counter.
BatchIdle ==
    [pc |-> "idle", client |-> 0, parallel |-> FALSE, max_concurrent |-> 0,
     operations |-> <<>>, status |-> <<>>, task_result |-> <<>>,
     finished |-> <<>>, value |-> 0, response |-> NoResponse]

\* What _execute_operation returns for the operation at position input: the
\* BrowserService call returned (success), it raised and the except branch
\* answered, or the type is unknown and the data holds the error.
execute_operation(input, type, raised) ==
    [operation |-> type, input |-> input,
     success |-> (type \in KnownTypes /\ ~raised),
     error |-> (type \notin KnownTypes \/ raised)]
NoResult == [operation |-> "none", input |-> 0, success |-> FALSE,
             error |-> FALSE]

\* asyncio.Semaphore.acquire goes on without waiting.
sem_acquirable_always(value) == TRUE
sem_acquirable(value) == value > 0

\* results.append(result) in the loop of _execute_sequential_operations.
appended(task_result, finished) ==
    [k \in DOMAIN finished |-> task_result[finished[k]]]
\* asyncio.gather(*tasks): the results in the order of the tasks.
gather_as_completed(task_result, finished) ==
    [k \in DOMAIN finished |-> task_result[finished[k]]]
gather(task_result, finished) == task_result

\* The body batch_operations returns.
batch_response(operations, results, parallel, max_concurrent) ==
    LET successful_operations ==
            Cardinality({k \in DOMAIN results : results[k].success}) IN
    [status |-> "ok",
     success |-> (successful_operations = Len(operations)),
     results |-> results,
     total_operations |-> Len(operations),
     successful_operations |-> successful_operations,
     failed_operations |-> Len(operations) - successful_operations,
     parallel |-> parallel,
     max_concurrent |-> IF parallel THEN max_concurrent ELSE 1]

Pending(b) == {i \in DOMAIN b.status : b.status[i] = "pending"}
Running(b) == {i \in DOMAIN b.status : b.status[i] = "running"}
FirstPending(b) == CHOOSE i \in Pending(b) : \A j \in Pending(b) : i <= j

\* batch_operations up to its first suspension: get_session, then the
\* semaphore is made (asyncio.Semaphore raises ValueError for a negative
\* value, which the handler answers with HTTP 500) and the operations are
\* handed to asyncio.gather, or the sequential loop begins.
BatchOperations(c, sid, operations, parallel, max_concurrent) ==
    /\ AtRest(c)
    /\ batch.pc \in {"idle", "returned"}
    /\ LET refused == parallel /\ max_concurrent < 0 IN
       /\ GetSessionStep(c, sid, "batch",
                         IF refused THEN task ELSE Busy(c, "batch", "batch", sid))
       /\ IF event'.res # "ok"
          THEN batch' = BatchIdle
          ELSE IF refused
          THEN batch' = [BatchIdle EXCEPT !.pc = "returned",
                                          !.response = BatchFailed]
          ELSE batch' =
                [BatchIdle EXCEPT
                    !.pc = "running", !.client = c, !.parallel = parallel,
                    !.max_concurrent = max_concurrent,
                    !.operations = operations,
                    !.status = [i \in DOMAIN operations |-> "pending"],
                    !.task_result = [i \in DOMAIN operations |-> NoResult],
                    !.value = IF parallel THEN max_concurrent ELSE 0]
    /\ UNCHANGED <<now, utc_offset, contexts, created, browser_open,
                   session_lock, reaper, shutdown,
                   enable_adaptive_rate_limiting, pacer, nav,
                   memory, library, services>>

\* The next operation starts: in a parallel batch its task acquires the
\* semaphore (the tasks start, and the semaphore wakes its waiters, in the
\* order of the list); in a sequential batch the loop comes to it.
\* _execute_operation calls BrowserService and suspends there; for an
\* unknown type it returns at once and the semaphore is released.
BatchTaskStart ==
    /\ batch.pc = "running"
    /\ Pending(batch) # {}
    /\ IF batch.parallel
       THEN sem_acquirable(batch.value)
       ELSE Running(batch) = {}
    /\ LET i == FirstPending(batch)
           type == batch.operations[i] IN
       IF type \in KnownTypes
       THEN batch' = [batch EXCEPT !.status[i] = "running",
                                   !.value = IF batch.parallel THEN @ - 1 ELSE @]
       ELSE batch' = [batch EXCEPT
                        !.status[i] = "done",
                        !.task_result[i] = execute_operation(i, type, FALSE),
                        !.finished = Append(@, i)]
    /\ event' = NoEvent
    /\ UNCHANGED <<registry, enable_adaptive_rate_limiting, pacer, nav,
                   memory, library, services>>

\* The BrowserService call of operation i returns or raises;
\* _execute_operation returns its entry and the semaphore is released.
BatchOpReturn(i) ==
    /\ batch.pc = "running"
    /\ i \in Running(batch)
    /\ \E raised \in BOOLEAN :
        batch' = [batch EXCEPT
                    !.status[i] = "done",
                    !.task_result[i] =
                        execute_operation(i, batch.operations[i], raised),
                    !.finished = Append(@, i),
                    !.value = IF batch.parallel THEN @ + 1 ELSE @]
    /\ event' = NoEvent
    /\ UNCHANGED <<registry, enable_adaptive_rate_limiting, pacer, nav,
                   memory, library, services>>

\* Every operation is done: asyncio.gather (or the loop) hands the results
\* over and batch_operations returns its body.
BatchReturn ==
    /\ batch.pc = "running"
    /\ Pending(batch) = {}
    /\ Running(batch) = {}
    /\ LET results == IF batch.parallel
                      THEN gather(batch.task_result, batch.finished)
                      ELSE appended(batch.task_result, batch.finished) IN
       batch' = [batch EXCEPT
                    !.pc = "returned",
                    !.response = batch_response(batch.operations, results,
                                                batch.parallel,
                                                batch.max_concurrent)]
    /\ task' = Rest(batch.client)
    /\ event' = NoEvent
    /\ UNCHANGED <<now, utc_offset, active_sessions, contexts, created,
                   browser_open, session_lock, reaper, shutdown,
                   enable_adaptive_rate_limiting, pacer, nav,
                   memory, library, services>>

\* ------------------------------------------------- statistics and listings
\* The stats_update dicts tried: the kinds update_session_stats counts, one
\* it does not, with and without a duration (in seconds) and an error.
StatsOperations == {"navigate", "screenshot", "interact", "request", "extract"}
StatsUpdates ==
    [operation : StatsOperations]
    \cup [operation : StatsOperations, duration : {0, 1}]
    \cup [operation : StatsOperations, error : {1}]
    \cup [duration : {1}]
\* update_session_stats is called until the counters of the registry add up
\* to MaxUpdates.
MaxUpdates == 2

RECURSIVE Counted(_)
Counted(reg) ==
    IF reg = <<>> THEN 0
    ELSE LET st == Head(reg).stats IN
         st.requests_made + st.pages_loaded + st.screenshots_taken
         + st.interactions_performed + st.errors_encountered
         + st.total_duration + Counted(Tail(reg))

\* A call of update_session_stats(session_id, stats_update).
UpdateSessionStats(sid, stats_update) ==
    /\ Counted(active_sessions) < MaxUpdates
    /\ active_sessions' = update_session_stats(active_sessions, sid, stats_update)
    /\ event' = Outcome("update_stats", sid, "ok")
    /\ UNCHANGED <<now, utc_offset, contexts, created, browser_open,
                   session_lock, task, reaper, shutdown, calls>>

\* list_sessions: a list built from the records, which it only reads.
ListSessions ==
    /\ event' = Outcome("list", 0, "ok")
    /\ UNCHANGED <<registry, calls>>

\* get_session_stats: get_session(session_id), then the dict of the
\* session's stats, context and uptime.
GetSessionStats(c, sid) ==
    /\ AtRest(c)
    /\ GetSessionStep(c, sid, "stats", task)
    /\ UNCHANGED <<now, utc_offset, contexts, created, browser_open,
                   session_lock, reaper, shutdown, calls>>

\* ----------------------------------------------------- the specifications
Init ==
    /\ now = 0
    /\ utc_offset \in UtcOffsets
    /\ active_sessions = <<>>
    /\ contexts = {}
    /\ created = 0
    /\ browser_open = TRUE
    /\ session_lock = 0
    /\ task = [c \in Clients |-> IdleTask]
    /\ event = NoEvent
    /\ reaper = ReaperAsleep
    /\ shutdown = ShutdownOff
    /\ enable_adaptive_rate_limiting = FALSE
    /\ pacer = AdaptiveRateLimiter(base_delay, min_delay, max_delay)
    /\ nav = NavIdle
    /\ batch = BatchIdle
    /\ MemoryAtRest
    /\ LibraryAtRest
    /\ ServicesAtRest

Next ==
    \/ Tick
    \/ \E c \in Clients : CreateBegin(c)
    \/ \E c \in Clients : CreateContext(c)
    \/ \E c \in Clients : CreateFinish(c)
    \/ \E c \in Clients, sid \in SessionIds : CloseSessionBegin(c, sid)
    \/ \E c \in Clients : CloseSessionReturn(c)
    \/ \E c \in Clients, sid \in SessionIds : GetSession(c, sid)
    \/ \E c \in Clients : GetSessionCloseReturn(c)
    \/ ReaperWake
    \/ ReaperScan
    \/ ReaperCloseReturn

\* One session, created at time 0, is registered.
InitOps ==
    /\ now = 0
    /\ utc_offset \in UtcOffsets
    /\ active_sessions = <<SessionData(1, 1, 0)>>
    /\ contexts = {1}
    /\ created = 1
    /\ browser_open = TRUE
    /\ session_lock = 0
    /\ task = [c \in Clients |-> IdleTask]
    /\ event = NoEvent
    /\ reaper = ReaperAsleep
    /\ shutdown = ShutdownOff
    /\ enable_adaptive_rate_limiting = FALSE
    /\ pacer = AdaptiveRateLimiter(base_delay, min_delay, max_delay)
    /\ nav = NavIdle
    /\ batch = BatchIdle
    /\ MemoryAtRest
    /\ LibraryAtRest
    /\ ServicesAtRest

NextOps ==
    \/ Tick
    \/ \E c \in Clients, sid \in SessionIds : CloseSessionBegin(c, sid)
    \/ \E c \in Clients : CloseSessionReturn(c)
    \/ \E c \in Clients, sid \in SessionIds : GetSession(c, sid)
    \/ \E c \in Clients : GetSessionCloseReturn(c)
    \/ ReaperWake
    \/ ReaperScan
    \/ ReaperCloseReturn
    \/ \E c \in Clients, sid \in SessionIds, op \in Operations :
            OperationBegin(c, sid, op)
    \/ \E c \in Clients : OperationEnd(c)

SpecOps == InitOps /\ [][NextOps]_vars

\* The operations on one session of a browser that may die.
NextCrash == NextOps \/ BrowserDies

SpecCrash == InitOps /\ [][NextCrash]_vars

\* Sessions created under ids as uuid4 draws them.
NextFresh ==
    \/ Tick
    \/ \E c \in Clients : CreateBegin(c)
    \/ \E c \in Clients : CreateContext(c)
    \/ \E c \in Clients : CreateFinishDrawn(c)

SpecFresh == Init /\ [][NextFresh]_vars

NextShutdown ==
    \/ Next
    \/ ShutdownStart
    \/ ShutdownAcquire
    \/ ShutdownCloseReturn
    \/ ShutdownBrowserClosed

SpecShutdown == Init /\ [][NextShutdown]_vars

Spec == Init /\ [][Next]_vars

\* The registry with the sessions 1..n registered at time 0 (UTC) and no
\* task at work.
RegistryAtRest(n) ==
    /\ now = 0
    /\ utc_offset = 0
    /\ active_sessions = [i \in 1..n |-> SessionData(i, i, 0)]
    /\ contexts = 1..n
    /\ created = n
    /\ browser_open = TRUE
    /\ session_lock = 0
    /\ task = [c \in Clients |-> IdleTask]
    /\ event = NoEvent
    /\ reaper = ReaperAsleep
    /\ shutdown = ShutdownOff

\* Calls of update_session_stats on a registry of two sessions.
InitStats ==
    /\ RegistryAtRest(2)
    /\ enable_adaptive_rate_limiting = FALSE
    /\ pacer = AdaptiveRateLimiter(base_delay, min_delay, max_delay)
    /\ nav = NavIdle
    /\ batch = BatchIdle
    /\ MemoryAtRest
    /\ LibraryAtRest
    /\ ServicesAtRest

NextStats ==
    \E sid \in SessionIds, stats_update \in StatsUpdates :
        UpdateSessionStats(sid, stats_update)

SpecStats == InitStats /\ [][NextStats]_vars

\* list_sessions and get_session_stats, by clients that also close
\* sessions, on a registry of two sessions while time passes.
NextQueries ==
    \/ Tick
    \/ ListSessions
    \/ \E c \in Clients, sid \in SessionIds : GetSessionStats(c, sid)
    \/ \E c \in Clients : GetSessionCloseReturn(c)
    \/ \E c \in Clients, sid \in SessionIds : CloseSessionBegin(c, sid)
    \/ \E c \in Clients : CloseSessionReturn(c)

SpecQueries == InitStats /\ [][NextQueries]_vars

\* A limiter constructed with min_delay <= base_delay <= max_delay and any
\* sequence of get_next_delay calls on it.
InitPacer ==
    /\ RegistryAtRest(0)
    /\ enable_adaptive_rate_limiting = TRUE
    /\ \E base \in Delays, lo \in Delays, hi \in Delays :
            /\ lo <= base
            /\ base <= hi
            /\ pacer = AdaptiveRateLimiter(base, lo, hi)
    /\ nav = NavIdle
    /\ batch = BatchIdle
    /\ MemoryAtRest
    /\ LibraryAtRest
    /\ ServicesAtRest

NextPacer == \E success \in BOOLEAN : GetNextDelay(success)

SpecPacer == InitPacer /\ [][NextPacer]_vars

\* Calls of navigate_to_url on one registered session, the pacer as
\* constructed by default.
InitNav ==
    /\ RegistryAtRest(1)
    /\ enable_adaptive_rate_limiting \in BOOLEAN
    /\ pacer = AdaptiveRateLimiter(base_delay, min_delay, max_delay)
    /\ nav = NavIdle
    /\ batch = BatchIdle
    /\ MemoryAtRest
    /\ LibraryAtRest
    /\ ServicesAtRest

NextNav ==
    \/ \E sid \in SessionIds, url \in Urls, initialized \in BOOLEAN :
            NavigateToUrl(sid, url, initialized)
    \/ NavPacerWake
    \/ NavGoto
    \/ NavBackoffOver
    \/ NavSettle
    \/ NavTitle

SpecNav == InitNav /\ [][NextNav]_vars

\* Batches on one registered session.
InitBatch ==
    /\ RegistryAtRest(1)
    /\ enable_adaptive_rate_limiting = FALSE
    /\ pacer = AdaptiveRateLimiter(base_delay, min_delay, max_delay)
    /\ nav = NavIdle
    /\ batch = BatchIdle
    /\ MemoryAtRest
    /\ LibraryAtRest
    /\ ServicesAtRest

RECURSIVE SeqsUpTo(_, _)
SeqsUpTo(S, n) ==
    IF n = 0 THEN {<<>>}
    ELSE LET shorter == SeqsUpTo(S, n - 1) IN
         shorter \cup {Append(q, x) : q \in shorter, x \in S}

NextBatch ==
    \/ \E c \in Clients, sid \in SessionIds,
          operations \in SeqsUpTo(OpTypes, MaxOps), parallel \in BOOLEAN,
          max_concurrent \in -1..MaxConcurrent :
            BatchOperations(c, sid, operations, parallel, max_concurrent)
    \/ BatchTaskStart
    \/ \E i \in 1..MaxOps : BatchOpReturn(i)
    \/ BatchReturn

SpecBatch == InitBatch /\ [][NextBatch]_vars

\* The records a site may have when the service starts: never accessed, or
\* accessed four times with half or all of the accesses successful.
StoredRecords(url) ==
    {SiteMemory(url, EmptyDict, <<>>, 1, 0, 0, EmptyDict),
     SiteMemory(url, EmptyDict, <<>>, 1, 4, One \div 2, EmptyDict),
     SiteMemory(url, EmptyDict, <<>>, 1, 4, One, EmptyDict)}

\* Calls of update_access_stats while time passes. Site 1 has a record,
\* site 2 has none.
InitAccess ==
    /\ RegistryAtRest(0)
    /\ enable_adaptive_rate_limiting = FALSE
    /\ pacer = AdaptiveRateLimiter(base_delay, min_delay, max_delay)
    /\ nav = NavIdle
    /\ batch = BatchIdle
    /\ enable_site_memory = TRUE
    /\ \E first \in StoredRecords(1) :
         /\ site_memory_table = save_site_memory(NoRows, first, 1, TRUE).table
         /\ access_log = [url \in Urls |-> NoAccess(IF url = 1 THEN first
                                                     ELSE None)]
    /\ LibraryAtRest
    /\ ServicesAtRest

NextAccess ==
    \/ Tick
    \/ \E site_url \in Urls, success \in BOOLEAN,
          performance_data \in PerformanceData, read_ok \in BOOLEAN,
          write_ok \in BOOLEAN :
            UpdateAccessStats(site_url, success, performance_data, read_ok,
                              write_ok)

SpecAccess == InitAccess /\ [][NextAccess]_vars

\* The dicts saved: empty, of numbers and lists under str keys, with a
\* tuple, with an int key, and with a value json.dumps refuses.
Dicts ==
    {EmptyDict,
     "a" :> Num(1),
     ("a" :> List(<<1, 2>>)) @@ ("b" :> Num(2)),
     "a" :> Tuple(<<1, 2>>),
     "int:1" :> Num(1),
     "a" :> Unserializable}
\* A record whose blobs all differ.
FullRecord(url, last_accessed) ==
    [SiteMemory(url, "session" :> Num(1), <<"cookie" :> Num(2)>>,
                last_accessed, 2, One \div 2, "custom" :> Num(3))
        EXCEPT !.extraction_patterns = "extraction" :> Num(4),
               !.performance_metrics = "load_time" :> List(<<5>>),
               !.timing_patterns = "timing" :> Num(6),
               !.site_characteristics = "site" :> Num(7),
               !.anti_detection_rules = "rule" :> Num(8),
               !.optimal_selectors = "selector" :> Num(9)]
\* The records saved: for site 1 a full record with one of its blobs
\* replaced, with and without a last_accessed; for site 2 a full record and
\* a new one.
SavedRecords ==
    {[FullRecord(1, 1) EXCEPT ![f] = d] :
        f \in {"session_data", "optimal_selectors"}, d \in Dicts}
    \cup {[FullRecord(1, 1) EXCEPT ![f] = EmptyDict] : f \in DictFields}
    \cup {[FullRecord(1, 1) EXCEPT !.cookies = l] :
             l \in {<<>>, <<"a" :> Tuple(<<1, 2>>)>>,
                    <<"a" :> Unserializable>>}}
    \cup {FullRecord(1, 0), FullRecord(2, 1),
          SiteMemory(2, EmptyDict, <<>>, 0, 0, 0, EmptyDict)}

\* Calls of save_site_memory and get_site_memory on an empty table while
\* time passes.
InitStore ==
    /\ RegistryAtRest(0)
    /\ enable_adaptive_rate_limiting = FALSE
    /\ pacer = AdaptiveRateLimiter(base_delay, min_delay, max_delay)
    /\ nav = NavIdle
    /\ batch = BatchIdle
    /\ enable_site_memory = TRUE
    /\ site_memory_table = NoRows
    /\ access_log = [url \in Urls |-> NoAccess(None)]
    /\ LibraryAtRest
    /\ ServicesAtRest

NextStore ==
    \/ Tick
    \/ \E site_memory \in SavedRecords, write_ok \in BOOLEAN :
            SaveSiteMemory(site_memory, write_ok)
    \/ \E site_url \in Urls, read_ok \in BOOLEAN :
            GetSiteMemory(site_url, read_ok)

SpecStore == InitStore /\ [][NextStore]_vars

\* Calls of navigate_to_url with site memory enabled, while other tasks
\* update the access statistics and the extraction patterns of site 1.
\* Site 1 has a record, site 2 has none, and navigate_to_url has
\* been called before and is called twice more. The database may raise in the calls of
\* navigate_to_url and of update_access_stats.
InitMemory ==
    /\ RegistryAtRest(1)
    /\ enable_adaptive_rate_limiting = FALSE
    /\ pacer = AdaptiveRateLimiter(base_delay, min_delay, max_delay)
    /\ nav = [NavIdle EXCEPT !.calls = MaxNavigates - 2]
    /\ batch = BatchIdle
    /\ enable_site_memory = TRUE
    /\ LET first == SiteMemory(1, EmptyDict, <<>>, 1, 4, One \div 2,
                               EmptyDict) IN
         /\ site_memory_table = save_site_memory(NoRows, first, 1, TRUE).table
         /\ access_log = [url \in Urls |-> NoAccess(IF url = 1 THEN first
                                                     ELSE None)]
    /\ LibraryAtRest
    /\ ServicesAtRest

NextMemory ==
    \/ \E sid \in SessionIds, url \in Urls :
            NavigateToUrl(sid, url, TRUE)
    \/ NavGoto
    \/ NavBackoffOver
    \/ NavSettle
    \/ NavTitle
    \/ \E read_ok \in BOOLEAN, write_ok \in BOOLEAN :
            UpdateAccessStats(1, TRUE, NoPerformanceData, read_ok, write_ok)
    \/ \E patterns \in Patterns :
            UpdateExtractionPatterns(1, patterns, TRUE, TRUE)

SpecMemory == InitMemory /\ [][NextMemory]_vars

\* Calls of is_duplicate while time passes, on a ContentDeduplicator that
\* is new or has sighted one text at the epoch.
InitDedup ==
    /\ RegistryAtRest(0)
    /\ enable_adaptive_rate_limiting = FALSE
    /\ pacer = AdaptiveRateLimiter(base_delay, min_delay, max_delay)
    /\ nav = NavIdle
    /\ batch = BatchIdle
    /\ MemoryAtRest
    /\ dedup \in {ContentDeduplicator(dedup_ttl),
                  is_duplicate(ContentDeduplicator(dedup_ttl),
                               <<"a", " ", "b">>, 0).dedup}
    /\ returned = NoCall
    /\ ServicesAtRest

NextDedup ==
    \/ Tick
    \/ \E content \in Contents : IsDuplicate(content)

SpecDedup == InitDedup /\ [][NextDedup]_vars

\* clean_content_basic applied, again and again, to a raw content.
InitClean ==
    /\ RegistryAtRest(0)
    /\ enable_adaptive_rate_limiting = FALSE
    /\ pacer = AdaptiveRateLimiter(base_delay, min_delay, max_delay)
    /\ nav = NavIdle
    /\ batch = BatchIdle
    /\ MemoryAtRest
    /\ dedup = ContentDeduplicator(dedup_ttl)
    /\ ServicesAtRest
    /\ \E content \in SeqsUpTo(Characters, MaxContent) :
            returned = Returned("content", [content |-> content], Text(<<>>))

NextClean == CleanContentBasic

SpecClean == InitClean /\ [][NextClean]_vars

\* Requests that name a session by the text of its id: session 1 is
\* registered.
InitIds ==
    /\ RegistryAtRest(1)
    /\ enable_adaptive_rate_limiting = FALSE
    /\ pacer = AdaptiveRateLimiter(base_delay, min_delay, max_delay)
    /\ nav = NavIdle
    /\ batch = BatchIdle
    /\ MemoryAtRest
    /\ LibraryAtRest
    /\ ServicesAtRest

NextIds ==
    \/ Tick
    \/ \E session_id \in SessionIdTexts : GetSessionInfo(1, session_id)
    \/ \E session_id \in SessionIdTexts, op \in Operations :
            OperationRequest(1, session_id, op)
    \/ OperationEnd(1)
    \/ GetSessionCloseReturn(1)
    \/ \E session_id \in SessionIdTexts : ValidateSessionId(session_id)

SpecIds == InitIds /\ [][NextIds]_vars

\* Requests and operations of a batch that carry a timeout.
InitTimeouts ==
    /\ RegistryAtRest(1)
    /\ enable_adaptive_rate_limiting = FALSE
    /\ pacer = AdaptiveRateLimiter(base_delay, min_delay, max_delay)
    /\ nav = NavIdle
    /\ batch = BatchIdle
    /\ MemoryAtRest
    /\ LibraryAtRest
    /\ ServicesAtRest

NextTimeouts ==
    \/ \E op \in Operations, timeout \in Timeouts : RequestTimeout(op, timeout)
    \/ \E op \in Operations, timeout \in Timeouts :
            BatchOperationTimeout(op, timeout)
    \/ \E timeout \in Timeouts : ValidateTimeout(timeout)

SpecTimeouts == InitTimeouts /\ [][NextTimeouts]_vars

\* Calls of chunk_content on the texts of up to MaxChunked characters.
InitChunk ==
    /\ RegistryAtRest(1)
    /\ enable_adaptive_rate_limiting = FALSE
    /\ pacer = AdaptiveRateLimiter(base_delay, min_delay, max_delay)
    /\ nav = NavIdle
    /\ batch = BatchIdle
    /\ MemoryAtRest
    /\ dedup = ContentDeduplicator(dedup_ttl)
    /\ ServicesAtRest
    /\ \E content \in SeqsUpTo(ChunkCharacters, MaxChunked),
          confidence_threshold \in ConfidenceThresholds :
            returned = Returned("content",
                                [content |-> content,
                                 confidence_threshold |-> confidence_threshold],
                                Text(<<>>))

NextChunk == ChunkContent

SpecChunk == InitChunk /\ [][NextChunk]_vars

\* The monitoring loop collecting samples.
InitMonitor ==
    /\ RegistryAtRest(0)
    /\ enable_adaptive_rate_limiting = FALSE
    /\ pacer = AdaptiveRateLimiter(base_delay, min_delay, max_delay)
    /\ nav = NavIdle
    /\ batch = BatchIdle
    /\ MemoryAtRest
    /\ LibraryAtRest
    /\ ServicesAtRest

NextMonitor == Tick \/ CollectMetrics

SpecMonitor == InitMonitor /\ [][NextMonitor]_vars

\* A ProxyRotator over no proxy or two, its calls and the clock.
InitProxies ==
    /\ RegistryAtRest(0)
    /\ enable_adaptive_rate_limiting = FALSE
    /\ pacer = AdaptiveRateLimiter(base_delay, min_delay, max_delay)
    /\ nav = NavIdle
    /\ batch = BatchIdle
    /\ MemoryAtRest
    /\ LibraryAtRest
    /\ monitor = ResourceMonitor
    /\ \E n \in ProxyCounts : rotator = ProxyRotator(n)
    /\ limiter = RateLimitMiddleware(requests_per_minute)
    /\ auth = AuthService
    /\ cache = CacheService

NextProxies ==
    \/ Tick
    \/ GetNextProxy
    \/ \E proxy_index \in 0..1 : MarkSuccess(proxy_index)
    \/ \E proxy_index \in 0..1 : MarkFailure(proxy_index)

SpecProxies == InitProxies /\ [][NextProxies]_vars

\* A RateLimitMiddleware, the requests of two clients and the clock.
NextLimiter ==
    \/ Elapse
    \/ \E client_ip \in ClientIps : Dispatch(client_ip)

SpecLimiter == InitMonitor /\ [][NextLimiter]_vars

\* An AuthService, the keys created, verified and revoked, and the clock.
NextAuth ==
    \/ Tick
    \/ Initialize
    \/ \E scopes \in ScopeLists, user_id \in UserIds,
          expires_in_days \in ExpiresInDays :
            CreateApiKey(scopes, user_id, expires_in_days)
    \/ \E api_key \in ApiKeys : VerifyApiKey(api_key)
    \/ \E key_id \in KeyIds, user_id \in UserIds : RevokeApiKey(key_id, user_id)

SpecAuth == InitMonitor /\ [][NextAuth]_vars

\* A CacheService on its memory cache, its calls and the clock.
NextCache ==
    \/ Elapse
    \/ CacheInitialize
    \/ \E key \in CacheKeys : CacheGet(key)
    \/ \E key \in CacheKeys, value \in CacheValues, ttl \in Ttls :
          CacheSet(key, value, ttl)
    \/ \E key \in CacheKeys : CacheExists(key)
    \/ \E key \in CacheKeys, ttl \in Ttls : CacheGetOrSet(key, ttl)

SpecCache == InitMonitor /\ [][NextCache]_vars

\* ------------------------------------------------------------------ claims
\* The number of close paths suspended inside context.close() on the context
\* of session sid: client tasks (close_session, get_session), the reaper and
\* cleanup.
Closers(sid) ==
    Cardinality({c \in Clients :
        task[c].pc \in {"close_ctx", "get_close_ctx"} /\ task[c].sid = sid})
    + (IF reaper.pc = "close_ctx" /\ reaper.cur = sid THEN 1 ELSE 0)
    + (IF shutdown.pc = "close_ctx" /\ shutdown.cur = sid THEN 1 ELSE 0)

\* C1: under every interleaving of create_session, close_session,
\* get_session and the reaper, the registry never holds more than
\* max_sessions sessions; a create_session that answers ResourceLimit found
\* the count equal to max_sessions at its test under the lock, and one that
\* went on past the test found the count below max_sessions.
C1_SessionCap ==
    /\ Len(active_sessions) <= max_sessions
    /\ (event.op = "create" /\ event.res = "ResourceLimit")
            => Len(active_sessions) = max_sessions
    /\ \A c \in Clients :
            task[c].op = "create" => Len(active_sessions) < max_sessions

\* A create_session was refused at the cap while another client was in the
\* middle of closing one of the registered sessions.
C1_Witness ==
    /\ event.op = "create"
    /\ event.res = "ResourceLimit"
    /\ Len(active_sessions) = max_sessions
    /\ \E c \in Clients : task[c].pc = "get_close_ctx"

\* C2: the browser context of a session is closed exactly once, under any
\* interleaving of the close paths (close_session, the close inside
\* get_session, the reaper), two of them acting on one session id included:
\* context.close() is never called on a context a second time, so no two
\* paths are ever inside it together. Stated for a process whose local time
\* zone is UTC.
C2_ClosedOnce ==
    utc_offset = 0 => \A sid \in SessionIds : Closers(sid) <= 1

\* C3: the browser operations of the handlers (navigate, extract, interact,
\* screenshot) never execute concurrently on the page of one session.
C3_Serialized == \A sid \in SessionIds : Cardinality(Executing(sid)) <= 1

\* C4: get_session on a registered session whose age, now - created_at, is
\* over session_ttl, or whose statistics are over a limit, fails with
\* InvalidSession (so a get_session that returned the session found neither),
\* and the session is out of the registry when the error is returned.
C4_ExpiredRejected ==
    /\ (event.op = "get" /\ event.res = "ok") =>
            LET s == Get(active_sessions, event.sid) IN
            /\ ~(now - s.created_at > session_ttl)
            /\ check_limits(s.stats) = {}
    /\ (event.op = "get" /\ event.res = "InvalidSession") =>
            ~Registered(event.sid)

\* C5: no registered session has a counter (requests, pages loaded,
\* screenshots, interactions, total duration) above its limit, whatever
\* operations were applied to it (one that crossed a limit was marked expired
\* and is gone from the registry).
C5_WithinQuota ==
    \A i \in DOMAIN active_sessions :
        check_limits(active_sessions[i].stats) = {}

\* C6: close_session on a registered id reports success (at once, or when
\* context.close() is over) and leaves the id unregistered; close_session on
\* an id that is not registered, as the second of two calls is, raises
\* SessionNotFound and tears nothing down: no context.close() is started, and
\* registry and contexts stay as they are.
C6_CloseTwice ==
    /\ [](event.op = "close" =>
            /\ event.res \in {"ok", "SessionNotFound"}
            /\ ~Registered(event.sid))
    /\ [][\A c \in Clients, sid \in SessionIds :
            CloseSessionBegin(c, sid) =>
                IF Registered(sid)
                THEN \/ event' = Outcome("close", sid, "ok")
                     \/ task'[c].pc = "close_ctx" /\ task'[c].sid = sid
                ELSE /\ event' = Outcome("close", sid, "SessionNotFound")
                     /\ UNCHANGED <<active_sessions, contexts, task,
                                    session_lock>>]_vars
    /\ [][\A c \in Clients :
            CloseSessionReturn(c) =>
                event'.op = "close" /\ event'.res = "ok"
                    /\ event'.sid = task[c].sid]_vars

\* The second close_session on a session: it was created and closed (its
\* context is gone), and the call has just raised SessionNotFound.
C6_Witness ==
    /\ event.op = "close"
    /\ event.res = "SessionNotFound"
    /\ event.sid \in 1..created
    /\ event.sid \notin contexts
    /\ ~Registered(event.sid)

\* C7: when context.close() raises in a close path, the record is removed
\* all the same and the close does not fail: close_session returns, and
\* get_session raises the InvalidSession it closed the session for; the
\* reaper goes on with the session out of the registry.
C7_RemovedOnCloseError ==
    /\ [](event.err =>
            /\ ~Registered(event.sid)
            /\ \/ event.op = "close" /\ event.res = "ok"
               \/ event.op = "get" /\ event.res = "InvalidSession")
    /\ [][ReaperCloseReturn => ~Has(active_sessions', reaper.cur)]_vars

\* close_session has returned from a close whose context.close() raised: the
\* context is still open and the record is gone.
C7_Witness ==
    /\ event.op = "close"
    /\ event.res = "ok"
    /\ event.err
    /\ event.sid \in contexts
    /\ ~Registered(event.sid)

\* C8: the reaper never removes a session whose age, now - created_at, is
\* at most session_ttl (and removes in the end every session whose age is
\* over it).
C8_ReaperSparesYoung ==
    [][(ReaperWake \/ ReaperScan \/ ReaperCloseReturn) =>
        \A i \in DOMAIN active_sessions :
            ~Has(active_sessions', active_sessions[i].session_id) =>
                now - active_sessions[i].created_at > session_ttl]_vars

\* C9: once cleanup has returned, the reaper task has ended and no
\* registered session has an open browser context. Stated for a process
\* whose local time zone is UTC.
C9_ShutdownClean ==
    (utc_offset = 0 /\ shutdown.pc = "done") =>
        /\ reaper.pc = "cancelled"
        /\ \A i \in DOMAIN active_sessions :
                active_sessions[i].context_id \notin contexts

\* C10: when get_session has returned a session, its last_activity is at
\* least the time of the call; and the last_activity of a registered session
\* never decreases.
C10_LastActivity ==
    /\ []((event.op = "get" /\ event.res = "ok") =>
            Get(active_sessions, event.sid).last_activity >= now)
    /\ [][\A i \in DOMAIN active_sessions :
            LET sid == active_sessions[i].session_id IN
            Has(active_sessions', sid) =>
                Get(active_sessions', sid).last_activity
                    >= active_sessions[i].last_activity]_vars

\* get_session has returned a session created earlier: its last_activity is
\* the time of the call, later than created_at.
C10_Witness ==
    /\ event.op = "get"
    /\ event.res = "ok"
    /\ LET s == Get(active_sessions, event.sid) IN
        s.last_activity = now /\ s.last_activity > s.created_at

\* C11: expiry is measured from created_at alone, whatever last_activity
\* says: a get_session made on a registered session when now - created_at is
\* over session_ttl does not return the session, and a scan of the reaper
\* made at such a time takes the session for expired (it is removed, or the
\* reaper is closing it or has it on its list).
C11_ExpiryFromCreation ==
    /\ [][\A c \in Clients, sid \in SessionIds :
            (GetSession(c, sid) /\ Registered(sid)
                /\ now - Get(active_sessions, sid).created_at > session_ttl)
            => event'.res # "ok"]_vars
    /\ [][((ReaperWake /\ session_lock = 0) \/ ReaperScan) =>
            \A i \in DOMAIN active_sessions :
                LET sid == active_sessions[i].session_id IN
                now - active_sessions[i].created_at > session_ttl =>
                    \/ ~Has(active_sessions', sid)
                    \/ reaper'.cur = sid
                    \/ \E k \in DOMAIN reaper'.expired :
                            reaper'.expired[k] = sid]_vars

\* C12: update_session_stats(id, event) on a registered id raises by exactly
\* one the counter of the event's kind (navigate: pages_loaded, screenshot:
\* screenshots_taken, interact: interactions_performed, request:
\* requests_made; errors_encountered for an event that carries an error),
\* adds the event's duration to total_duration, and leaves every other
\* counter, the rest of the record and every other session as they were; no
\* counter decreases; on an id that is not registered it changes nothing.
C12_StatsUpdate ==
    [][\A sid \in SessionIds, e \in StatsUpdates :
        UpdateSessionStats(sid, e) =>
            IF ~Registered(sid)
            THEN active_sessions' = active_sessions
            ELSE LET i == Idx(active_sessions, sid)
                     old == active_sessions[i].stats
                     new == active_sessions'[i].stats
                     Kind(k) == IF "operation" \in DOMAIN e /\ e.operation = k
                                THEN 1 ELSE 0
                 IN
                 /\ DOMAIN active_sessions' = DOMAIN active_sessions
                 /\ \A j \in DOMAIN active_sessions :
                        j # i => active_sessions'[j] = active_sessions[j]
                 /\ active_sessions'[i] =
                        [active_sessions[i] EXCEPT !.stats = new]
                 /\ new.pages_loaded = old.pages_loaded + Kind("navigate")
                 /\ new.screenshots_taken =
                        old.screenshots_taken + Kind("screenshot")
                 /\ new.interactions_performed =
                        old.interactions_performed + Kind("interact")
                 /\ new.requests_made = old.requests_made + Kind("request")
                 /\ new.errors_encountered = old.errors_encountered
                        + (IF "error" \in DOMAIN e THEN 1 ELSE 0)
                 /\ new.total_duration = old.total_duration
                        + (IF "duration" \in DOMAIN e THEN e.duration ELSE 0)
                 /\ new.total_duration >= old.total_duration]_vars

\* update_session_stats has just counted a navigate event with a duration
\* for session 2, while session 1 holds what an earlier event left it.
C12_Witness ==
    /\ event.op = "update_stats"
    /\ event.sid = 2
    /\ Registered(1)
    /\ Registered(2)
    /\ Get(active_sessions, 2).stats =
            [SessionStats EXCEPT !.pages_loaded = 1, !.total_duration = 1]
    /\ Get(active_sessions, 1).stats =
            [SessionStats EXCEPT !.screenshots_taken = 1]

\* C13: list_sessions and get_session_stats are read-only: no step of either
\* call changes the registry (the sessions registered, their status,
\* last_activity and counters) or the browser contexts.
C13_ReadOnly ==
    /\ [][ListSessions => UNCHANGED <<active_sessions, contexts>>]_vars
    /\ [][\A c \in Clients, sid \in SessionIds :
            GetSessionStats(c, sid) =>
                UNCHANGED <<active_sessions, contexts>>]_vars
    /\ [][\A c \in Clients :
            (GetSessionCloseReturn(c) /\ task[c].op = "stats") =>
                UNCHANGED <<active_sessions, contexts>>]_vars

\* C14: while a parallel batch with the limit max_concurrent runs, no more
\* than max_concurrent of its operations are executing (inside their
\* BrowserService call) at any one time.
C14_BatchConcurrency ==
    (batch.pc = "running" /\ batch.parallel) =>
        Cardinality(Running(batch)) <= batch.max_concurrent

\* A parallel batch of more operations than its limit: max_concurrent of
\* them are executing and another one waits for the semaphore.
C14_Witness ==
    /\ batch.pc = "running"
    /\ batch.parallel
    /\ batch.max_concurrent >= 1
    /\ Len(batch.operations) > batch.max_concurrent
    /\ Cardinality(Running(batch)) = batch.max_concurrent
    /\ \E i \in Pending(batch) : batch.operations[i] \in KnownTypes

\* C15: the body a batch of n operations returns, parallel or sequential:
\* its result list has n entries; entry i is the result of operation i,
\* whatever the order in which the operations finished; an operation that
\* failed has an entry with success false and an error, and every operation
\* was executed all the same; successful_operations and failed_operations
\* add up to n; and success is true exactly when all n succeeded.
C15_BatchResults ==
    (batch.pc = "returned" /\ batch.response.status = "ok") =>
        LET r == batch.response
            n == Len(batch.operations) IN
        /\ Len(r.results) = n
        /\ r.total_operations = n
        /\ \A i \in 1..n :
            /\ r.results[i].input = i
            /\ r.results[i].operation = batch.operations[i]
            /\ r.results[i].success = ~r.results[i].error
        /\ r.successful_operations =
                Cardinality({i \in 1..n : r.results[i].success})
        /\ r.successful_operations + r.failed_operations = n
        /\ r.success = (\A i \in 1..n : r.results[i].success)

\* A parallel batch has returned whose second operation finished first and
\* failed, while the first one succeeded.
C15_Witness ==
    /\ batch.pc = "returned"
    /\ batch.response.status = "ok"
    /\ batch.parallel
    /\ Len(batch.operations) >= 2
    /\ batch.finished[1] = 2
    /\ batch.operations[2] \in KnownTypes
    /\ ~batch.response.results[2].success
    /\ batch.response.results[1].success
    /\ ~batch.response.success
    /\ batch.response.failed_operations = 1

\* C16: navigate retries a failing page.goto up to 3 times, sleeping 1 s,
\* 2 s and 4 s before the first, second and third retry; it issues no goto
\* after one has succeeded; and the failure of goto surfaces only when the
\* retries are used up, that is after the first attempt and three retries.
C16_RetryBackoff ==
    /\ [](\A k \in DOMAIN nav.slept : nav.slept[k] = 2 ^ (k - 1))
    /\ [](nav.gotos <= 1 + 3)
    /\ [][nav.pc \in {"settle", "title"} => nav'.gotos = nav.gotos]_vars
    /\ [][(NavGoto /\ event'.res = "BrowserOperationError") =>
            /\ nav.gotos = 1 + 3
            /\ nav.slept = <<1, 2, 4>>]_vars

\* C17: a navigate whose page.goto attempts are used up fails with
\* BrowserOperationError for the operation "navigate", and with nothing
\* else: the session is registered as before, its context is open as before,
\* and the URL and title recorded for it are those from before the call (no
\* step of the call up to the failure writes the registry).
C17_NavigateFailure ==
    /\ [][(NavGoto /\ nav'.pc = "idle") =>
            /\ nav.attempt = max_retries - 1
            /\ event' = Outcome("navigate", nav.sid, "BrowserOperationError")
            /\ Has(active_sessions', nav.sid)
            /\ UNCHANGED <<active_sessions, contexts>>]_vars
    /\ [][(nav.pc \in {"pacer_sleep", "goto", "backoff"}
            \/ nav'.pc \in {"pacer_sleep", "goto", "backoff"}) =>
            UNCHANGED <<active_sessions, contexts>>]_vars

\* A navigate to one URL has just failed at its last attempt on a session
\* whose recorded URL and title are those of another page, loaded earlier.
C17_Witness ==
    /\ event = Outcome("navigate", 1, "BrowserOperationError")
    /\ nav.gotos = max_retries
    /\ nav.url = 2
    /\ Registered(1)
    /\ Get(active_sessions, 1).url = 1
    /\ Get(active_sessions, 1).title = 1
    /\ 1 \in contexts

\* C18: for a pacer constructed with min_delay <= base_delay <= max_delay,
\* after any sequence of get_next_delay(success) calls current_delay lies
\* in [min_delay, max_delay], success_rate in [0.1, 1.0], and
\* successful_requests is at most total_requests.
C18_PacerBounds ==
    /\ pacer.min_delay <= pacer.current_delay
    /\ pacer.current_delay <= pacer.max_delay
    /\ success_rate_floor <= pacer.success_rate
    /\ pacer.success_rate <= success_rate_ceiling
    /\ pacer.successful_requests <= pacer.total_requests
    /\ pacer.successful_requests >= 0

\* A pacer after one success and a run of failures: current_delay has been
\* stopped at max_delay, above where it started, and success_rate at its
\* floor.
C18_Witness ==
    /\ event.op = "get_next_delay"
    /\ pacer.successful_requests >= 1
    /\ pacer.total_requests > pacer.successful_requests
    /\ pacer.base_delay < pacer.max_delay
    /\ pacer.min_delay < pacer.base_delay
    /\ pacer.current_delay = pacer.max_delay
    /\ pacer.success_rate = success_rate_floor

\* C19: the failure of a navigate is fed to the pacer as a failure: in the
\* navigate that follows a failed one, the current_delay the pacer applies
\* is larger than the one it held before, or equal to it at max_delay.
C19_Backpressure ==
    [][\A sid \in SessionIds, url \in Urls :
        (NavigateToUrl(sid, url, TRUE) /\ nav.last_failed
            /\ enable_adaptive_rate_limiting) =>
            \/ pacer'.current_delay > pacer.current_delay
            \/ pacer'.current_delay = pacer.max_delay]_vars

\* C20: from a fresh pacer with the default parameters (base 2.0, min 0.5,
\* max 10.0), after 10 navigate calls of which 5 failed, in any order,
\* current_delay lies strictly between min_delay and max_delay and
\* success_rate within [0.1, 1.0].
C20_TenNavigates ==
    (nav.pc = "idle" /\ nav.calls = 10 /\ nav.failed_calls = 5) =>
        /\ min_delay < pacer.current_delay
        /\ pacer.current_delay < max_delay
        /\ success_rate_floor <= pacer.success_rate
        /\ pacer.success_rate <= success_rate_ceiling

\* Ten navigates are over, the last of them failed, five failed in all, and
\* every one of the ten went through the pacer.
C20_Witness ==
    /\ nav.pc = "idle"
    /\ nav.calls = 10
    /\ nav.failed_calls = 5
    /\ nav.last_failed
    /\ enable_adaptive_rate_limiting
    /\ pacer.total_requests = 10
    /\ pacer.current_delay < base_delay

\* The exponential moving average with alpha = 0.1 of the successes of
\* calls, from the rate s.
RECURSIVE Ema(_, _)
Ema(s, accesses) ==
    IF accesses = <<>> THEN s
    ELSE Ema((9 * s + (IF Head(accesses).success THEN One ELSE 0)) \div 10,
             Tail(accesses))

\* C21: for a site whose record existed, after any sequence of
\* update_access_stats calls the stored success_rate is the exponential
\* moving average (alpha = 0.1) of the calls' successes computed from the
\* record's initial success_rate, it lies in [0, 1], and access_count has
\* grown by the number of calls.
C21_SuccessRateEma ==
    \A url \in Urls :
        LET first == access_log[url].first
            accesses == access_log[url].calls
            got == get_site_memory(site_memory_table, url, TRUE) IN
        first # None =>
            /\ got # None
            /\ got.success_rate = Ema(first.success_rate, accesses)
            /\ got.success_rate >= 0
            /\ got.success_rate <= One
            /\ got.access_count = first.access_count + Len(accesses)
\* Three accesses, successes and failures among them, have moved a record's
\* rate strictly inside (0, 1).
C21_Witness ==
    \E url \in Urls :
        LET accesses == access_log[url].calls
            got == get_site_memory(site_memory_table, url, TRUE) IN
        /\ access_log[url].first # None
        /\ Len(accesses) = 3
        /\ accesses[1].success /\ ~accesses[2].success /\ accesses[3].success
        /\ got.success_rate > 0
        /\ got.success_rate < One
        /\ got.access_count = access_log[url].first.access_count + 3

\* The samples of a metric carried by the logged accesses, in order.
RECURSIVE Arrivals(_, _)
Arrivals(accesses, key) ==
    IF accesses = <<>> THEN <<>>
    ELSE LET data == Head(accesses).performance_data IN
         (IF key \in DOMAIN data THEN <<data[key].items[1]>> ELSE <<>>)
             \o Arrivals(Tail(accesses), key)
\* The last n elements of s, all of s when it is shorter.
LastOf(s, n) == IF Len(s) <= n THEN s ELSE SubSeq(s, Len(s) - n + 1, Len(s))

JsonNative(d) ==
    \A k \in DOMAIN d : json_key(k) = k /\ d[k].type \in {"number", "list"}

RECURSIVE Merged(_, _)
Merged(d, patterns) ==
    IF patterns = <<>> THEN d
    ELSE Merged(Head(patterns) @@ d, Tail(patterns))

\* C24: updates of one site's record by concurrent tasks (the
\* update_access_stats of a navigate in flight, and update_access_stats and
\* update_extraction_patterns called by other tasks meanwhile) lose no
\* update: access_count has grown by the number of access updates and
\* extraction_patterns holds every merge, the later one winning per key.
C24_NoLostUpdate ==
    \A url \in Urls :
        LET log == access_log[url]
            got == get_site_memory(site_memory_table, url, TRUE) IN
        got # None =>
            /\ got.access_count =
                   (IF log.first = None THEN 0 ELSE log.first.access_count)
                   + Len(log.calls)
            /\ got.extraction_patterns =
                   Merged(IF log.first = None THEN EmptyDict
                          ELSE log.first.extraction_patterns, log.patterns)
\* A navigate has just returned after updating the record it had loaded
\* before its browser steps; since that load, other tasks have updated the
\* access statistics and the extraction patterns of the same site.
C24_Witness ==
    /\ event.op = "navigate"
    /\ event.res = "ok"
    /\ nav.site_memory # None
    /\ LET got == get_site_memory(site_memory_table, nav.url, TRUE) IN
         /\ got.access_count >= nav.site_memory.access_count + 2
         /\ got.extraction_patterns # nav.site_memory.extraction_patterns

\* C25: a failure of the database in a site-memory call never fails the
\* navigate that makes the call: the call of an initialized service goes on
\* to its page.goto whether or not the record could be loaded, and a
\* navigate whose page.title() has returned returns success whether or not
\* the access could be recorded; update_access_stats on a failing database
\* returns False and writes nothing.
C25_MemoryFailureTolerated ==
    [][/\ \A sid \in SessionIds, url \in Urls :
             NavigateToUrl(sid, url, TRUE) =>
                 /\ event' = NoEvent
                 /\ nav'.pc = "goto"
       /\ (nav.pc = "title" /\ NavTitleReturns) =>
             /\ event' = Outcome("navigate", nav.sid, "ok")
             /\ ~nav'.last_failed
       /\ \A read_ok \in BOOLEAN, write_ok \in BOOLEAN :
             (UpdateAccessStats(1, TRUE, NoPerformanceData, read_ok, write_ok)
              /\ ~(read_ok /\ write_ok)) =>
                 /\ returned'.value = Bool(FALSE)
                 /\ UNCHANGED site_memory_table]_vars
\* A navigate of a site that has a record has returned success although it
\* could neither load the record nor record the access.
C25_Witness ==
    /\ event.op = "navigate"
    /\ event.res = "ok"
    /\ enable_site_memory
    /\ nav.site_memory = None
    /\ get_site_memory(site_memory_table, nav.url, TRUE) # None
    /\ access_log[nav.url].calls = <<>>
    /\ access_log[nav.url].patterns = <<>>

\* The words of a text in lower case: its maximal runs of characters that
\* are not whitespace.
RECURSIVE Words(_)
Words(s) ==
    IF s = <<>> THEN <<>>
    ELSE IF IsSpace(Head(s)) THEN Words(Tail(s))
    ELSE LET n == CHOOSE k \in 1..Len(s) :
                     /\ \A i \in 1..k : ~IsSpace(s[i])
                     /\ k = Len(s) \/ IsSpace(s[k + 1]) IN
         <<[i \in 1..n |-> lower(s[i])]>> \o Words(SubSeq(s, n + 1, Len(s)))

\* C26: is_duplicate(t) returns True exactly when a text with the words of
\* t (letter case and the amount of whitespace aside) was first sighted no
\* more than ttl ago, a sighting that is True leaves the time of the first
\* sighting as it was, and one that is False makes now the first sighting.
C26_DuplicateWithinTtl ==
    [][\A content \in Contents :
          IsDuplicate(content) =>
              LET sighted == {h \in DOMAIN dedup.content_hashes :
                                 Words(h) = Words(content)}
                  fresh == {h \in sighted :
                               time_time - dedup.content_hashes[h]
                                   <= dedup_ttl}
                  after == {h \in DOMAIN dedup'.content_hashes :
                               Words(h) = Words(content)} IN
              /\ returned'.value = Bool(fresh # {})
              /\ Cardinality(after) = 1
              /\ \A h \in after :
                     dedup'.content_hashes[h] =
                         IF h \in fresh THEN dedup.content_hashes[h]
                         ELSE time_time]_vars
\* A text that is not in normal form has been reported a duplicate.
C26_Witness ==
    /\ returned.call = "is_duplicate"
    /\ returned.value = Bool(TRUE)
    /\ returned.args.content # generate_content_hash(returned.args.content)

\* C27: clean_content_basic is idempotent: cleaning a text that
\* clean_content_basic returned gives the same text.
C27_CleanIdempotent ==
    returned.call = "clean_content_basic" =>
        clean_content_basic(returned.value.text) = returned.value.text

\* The shape the documentation gives a session id: "sess_" followed by
\* exactly 8 lowercase hex characters.
well_formed(session_id) ==
    /\ Len(session_id) = Len(sess_) + id_hex_length
    /\ startswith(session_id, sess_)
    /\ \A i \in (Len(sess_) + 1)..Len(session_id) : IsHex(session_id[i])

\* C28: every operation that takes a session id answers an id that is not
\* "sess_" and 8 lowercase hex characters with a validation error, and never
\* looks it up: get_session on such an id never raises SessionNotFound.
C28_MalformedIdRejected ==
    (/\ returned.call \in Operations \cup {"get_session"}
     /\ ~well_formed(returned.args.session_id))
        => returned.value = Raised("ValidationError")

\* C29: for every operation kind, alone or inside a batch, a supplied
\* timeout t is accepted exactly when 1000 <= t <= 300000.
C29_TimeoutBounds ==
    returned.call \in Operations =>
        (returned.value = Bool(TRUE)
            <=> (1000 <= returned.args.timeout
                    /\ returned.args.timeout <= 300000))

\* C30: every chunk chunk_content returns has a size between min_chunk_size
\* and max_chunk_size, the remaining chunk and the split chunks included,
\* and the chunks are ordered by position and do not overlap.
C30_ChunkBounds ==
    returned.call = "chunk_content" =>
        LET chunks == returned.value.chunks IN
        /\ \A i \in DOMAIN chunks :
              /\ Len(chunks[i].content) >= min_chunk_size
              /\ Len(chunks[i].content) <= max_chunk_size
        /\ \A i, j \in DOMAIN chunks :
              i < j => chunks[i].end_index <= chunks[j].start_index

\* C31: a create request refused at the session cap is answered with the
\* resource limit error naming "sessions", the limit and the current count,
\* never with a generic internal failure.
C31_LimitSurfaces ==
    (event.op = "create" /\ event.res = "ResourceLimit") =>
        /\ event.response.error =
              ResourceLimitError("sessions", max_sessions, Len(active_sessions))
        /\ event.response.status # 500

\* C32: once the browser process has died, a session has status Error
\* after its next operation, and a status Error or Expired never changes.
C32_DeadBrowserMarksError ==
    [][/\ \A c \in Clients :
            (/\ ~browser_open
             /\ task[c].pc = "browser"
             /\ task'[c].pc = "idle"
             /\ Has(active_sessions', task[c].sid))
                => Get(active_sessions', task[c].sid).status = "error"
       /\ \A sid \in SessionIds :
            (/\ Registered(sid)
             /\ Get(active_sessions, sid).status \in {"error", "expired"}
             /\ Has(active_sessions', sid))
                => Get(active_sessions', sid).status
                        = Get(active_sessions, sid).status]_vars

\* C33: the sample history never holds more than max_history_size samples
\* and is always the most recent samples collected, in collection order.
C33_HistoryBounded ==
    LET history == monitor.system_metrics_history
        n == Len(monitor.collected) IN
    /\ Len(history) <= max_history_size
    /\ history = SubSeq(monitor.collected,
                        Max(1, n - max_history_size + 1), n)
\* More samples were collected than the history holds.
C33_Witness ==
    /\ Len(monitor.collected) > max_history_size
    /\ Len(monitor.system_metrics_history) = max_history_size
    /\ monitor.collected[1] # monitor.collected[Len(monitor.collected)]

\* C34: a successful create_session never replaces the record of a
\* registered session: every session registered before is registered after,
\* with its own context.
C34_CreateKeepsSessions ==
    [][(event'.op = "create" /\ event'.res = "ok") =>
        \A sid \in SessionIds :
            Registered(sid) =>
                /\ Has(active_sessions', sid)
                /\ Get(active_sessions', sid) = Get(active_sessions, sid)]_vars

\* C35: when a navigate returns with success and site memory is enabled,
\* the store holds a record of the target whose access_count is one greater
\* than before (1 on a first visit); when it fails, the record of the target
\* counts one more access and its success rate has moved towards failure.
C35_NavigateCounted ==
    [][(enable_site_memory /\ event'.op = "navigate") =>
        LET before == get_site_memory(site_memory_table, nav.url, TRUE)
            after == get_site_memory(site_memory_table', nav.url, TRUE) IN
        /\ after # None
        /\ after.access_count =
              IF before = None THEN 1 ELSE before.access_count + 1
        /\ (event'.res # "ok" /\ before # None) =>
              after.success_rate = moving_average(before.success_rate, FALSE)
      ]_vars

\* C36: in every quiescent state each open browser context belongs to
\* exactly one registered session; a create_session that fails after the
\* context was opened leaves no context behind.
C36_NoOrphanContext ==
    (/\ \A c \in Clients : AtRest(c)
     /\ reaper.pc = "sleep"
     /\ shutdown.pc = "off")
        => \A ctx \in contexts :
              Cardinality({i \in DOMAIN active_sessions :
                              active_sessions[i].context_id = ctx}) = 1

\* C37: get_next_proxy returns a proxy that was not failed while one was
\* not failed; with every proxy failed it clears the failed set and returns
\* one of them; it returns nothing only for an empty list. Only a proxy with
\* more than 3 failures is in the failed set, and mark_success takes the
\* proxy out of it.
C37_ProxySelection ==
    LET all == 0..(rotator.proxies - 1) IN
    /\ returned.call = "get_next_proxy" =>
          LET failed == returned.args.failed_proxies IN
          /\ returned.value = NoProxy <=> all = {}
          /\ all # {} => returned.value \in {Proxy(i) : i \in all}
          /\ (all # {} /\ all \ failed # {}) =>
                /\ returned.value.proxy \notin failed
                /\ rotator.failed_proxies = failed
          /\ (all # {} /\ all \ failed = {}) =>
                rotator.failed_proxies = {}
    /\ \A i \in rotator.failed_proxies :
          rotator.proxy_stats[i].failures > failure_threshold
    /\ returned.call = "mark_success" =>
          returned.args.proxy_index \notin rotator.failed_proxies
\* A proxy was returned while the other one was failed.
C37_Witness ==
    /\ returned.call = "get_next_proxy"
    /\ returned.args.failed_proxies # {}
    /\ returned.value \in {Proxy(0), Proxy(1)}
    /\ rotator.failed_proxies = returned.args.failed_proxies

\* The requests of client_ip admitted at an instant t with lo <= t < hi.
admitted_in(lim, client_ip, lo, hi) ==
    {k \in DOMAIN lim.admitted :
        /\ lim.admitted[k].client_ip = client_ip
        /\ lo <= lim.admitted[k].current_time
        /\ lim.admitted[k].current_time < hi}

\* C38: of each client address at most requests_per_minute requests are
\* admitted within any window of a minute; a rejected request is not
\* counted, and a request is admitted exactly when fewer than
\* requests_per_minute admitted requests of its client are younger than a
\* minute.
C38_RateLimited ==
    [][limiter'.dispatched # limiter.dispatched =>
        LET client_ip == returned'.args.client_ip
            current_time == returned'.args.current_time
            younger == admitted_in(limiter, client_ip,
                                   current_time - minute + 1, current_time + 1)
        IN
        /\ \A c \in ClientIps : \A lo \in 0..(MaxElapsed + 1) :
              Cardinality(admitted_in(limiter', c, lo, lo + minute))
                  <= requests_per_minute
        /\ returned'.value = Response(200)
              <=> Cardinality(younger) < requests_per_minute
        /\ returned'.value = Response(429) =>
              /\ limiter'.admitted = limiter.admitted
              /\ Len(limiter'.requests[client_ip]) = Cardinality(younger)
        /\ returned'.value \in {Response(200), Response(429)}]_vars
\* A client rejected at its limit is admitted again once a request of its
\* minute has aged out.
C38_Witness ==
    /\ returned.call = "dispatch"
    /\ returned.value = Response(200)
    /\ Len(limiter.admitted) = requests_per_minute + 1
    /\ limiter.dispatched > Len(limiter.admitted)
    /\ \A k \in DOMAIN limiter.admitted :
          limiter.admitted[k].client_ip = returned.args.client_ip

\* C39: verify_api_key on a key create_api_key returned, while the key is
\* active and unexpired, returns the key's own key_id, user and scopes;
\* once its owner has revoked it the key never verifies, and revoke_api_key
\* by another user leaves the key active.
C39_CreatedKeyVerifies ==
    /\ (returned.call = "verify_api_key" /\ auth.initialized) =>
          \A k \in DOMAIN auth.issued :
              LET result == auth.issued[k] IN
              (/\ result.api_key = returned.args.api_key
               /\ result.key_id \in DOMAIN auth.api_keys
               /\ auth.api_keys[result.key_id].hashed_key
                     = hash_api_key(result.api_key)
               /\ auth.api_keys[result.key_id].is_active
               /\ ~key_expired(result.expires_at, returned.args.utcnow))
              => /\ returned.value # NotVerified
                 /\ returned.value.key_id = result.key_id
                 /\ returned.value.user_id
                       = auth.api_keys[result.key_id].user_id
                 /\ returned.value.scopes = result.scopes
    /\ (returned.call = "verify_api_key" /\ auth.initialized
          /\ hash_api_key(returned.args.api_key) \in auth.revoked)
          => returned.value = NotVerified
    /\ (returned.call = "revoke_api_key"
          /\ returned.args.key_id \in DOMAIN returned.args.api_keys
          /\ returned.args.api_keys[returned.args.key_id].user_id
                # returned.args.user_id)
          => auth.api_keys = returned.args.api_keys

\* The key of the cache's last call held an entry that had not expired.
fresh_entry ==
    /\ returned.args.key \in DOMAIN returned.args.memory_cache
    /\ returned.args.current_time
          < returned.args.memory_cache[returned.args.key].expires_at

\* C40: get and exists report a value only before expires_at of the key's
\* latest set, and until then they do; an expired entry is deleted when it
\* is read; set with a ttl makes the entry expire exactly that ttl later;
\* get_or_set invokes the factory only when the key is missing or expired.
C40_CacheFresh ==
    LET key == returned.args.key
        current_time == returned.args.current_time IN
    /\ (returned.call = "get" /\ cache.initialized) =>
          /\ returned.value # none =>
                /\ key \in DOMAIN cache.latest
                /\ current_time < cache.latest[key].expires_at
                /\ returned.value = cache.latest[key].value
          /\ fresh_entry =>
                returned.value = returned.args.memory_cache[key].value
    /\ (returned.call = "exists" /\ cache.initialized) =>
          /\ returned.value = Bool(TRUE) =>
                /\ key \in DOMAIN cache.latest
                /\ current_time < cache.latest[key].expires_at
          /\ fresh_entry => returned.value = Bool(TRUE)
    /\ (returned.call \in {"get", "exists"} /\ cache.initialized
          /\ key \in DOMAIN returned.args.memory_cache /\ ~fresh_entry)
          => key \notin DOMAIN cache.memory_cache
    /\ (returned.call = "set" /\ cache.initialized
          /\ returned.args.ttl # NoTtl)
          => \A n \in returned.args.ttl :
                cache.memory_cache[key].expires_at = current_time + n
    /\ (returned.call = "get_or_set" /\ cache.initialized
          /\ returned.value.factory_invoked)
          => ~fresh_entry

====
